---- MODULE Spec2Model ----
(***************************************************************************)
(* A model of the Terraform State Analyzer's analysis engine               *)
(* (src/src/utils/security.ts: SecurityAnalyzer and DependencyAnalyzer)    *)
(* and of the upload state machine around it (useFileProcessor in          *)
(* src/src/components/Dashboard.tsx, AppContent in src/src/App.tsx).       *)
(*                                                                         *)
(* Strings are sequences of tokens: a token is a run of characters that    *)
(* the code never looks inside, so concatenation is sequence               *)
(* concatenation and two strings with the same tokens are equal.           *)
(* JavaScript values are tagged records (Undef, Null, Bool, Num, Str,      *)
(* Arr, Obj); a call either returns or raises.                            *)
(***************************************************************************)
EXTENDS Integers, Sequences, FiniteSets, TLC

VARIABLES
    issues,        \* SecurityIssue[]: the findings list handed to a function
    score,         \* calculateSecurityScore(issues), or NotComputed
    prevScore,     \* the score of issues without its last finding
    deduped,       \* deduplicateIssues(issues), or NotComputed
    rededuped,     \* deduplicateIssues(deduped), or NotComputed
    resources,     \* TerraformResource[]: the parsed document's resource list
    hardeningRules,\* SecurityAnalyzer.hardeningRules, the rule catalog
    seen,          \* the Set of keys deduplicateIssues last filled
    securityIssues,          \* what the last analyzeResources(resources) did
    previousSecurityIssues,  \* what the call before it did
    dependencies,            \* what the last analyzeDependencies(resources) did
    previousDependencies,    \* what the call before it did
    network,                 \* what the last getResourceNetwork call returned
    isProcessing,  \* ProcessingState.isProcessing
    error,         \* ProcessingState.error: Null or the message
    result,        \* ProcessingState.result: Null or the AnalysisResult
    progress,      \* ProcessingState.progress
    currentView,   \* AppContent's currentView
    reading,       \* the processFile invocations awaiting their FileReader
    nextRun,       \* the number the next processFile invocation gets
    superseded,    \* the invocations a reset or a newer invocation superseded
    ended,         \* the processFile invocation that ended last: its file, the
                   \* calls it made and the ProcessingState it left
    walkRoot,      \* the attribute value findImplicitDependencies walks
    walkStack,     \* the searchForReferences calls still to be made, next first
    walkCalls      \* the callback invocations so far, with what each pushed

scoreVars == <<issues, score, prevScore>>
dedupVars == <<deduped, rededuped>>
analysisVars == <<resources, hardeningRules, seen, securityIssues, previousSecurityIssues,
                  dependencies, previousDependencies, network>>
appVars == <<isProcessing, error, result, progress, currentView, reading, nextRun,
             superseded, ended>>
walkVars == <<walkRoot, walkStack, walkCalls>>
vars == <<issues, score, prevScore, deduped, rededuped, resources, hardeningRules, seen,
          securityIssues, previousSecurityIssues, dependencies, previousDependencies,
          network, isProcessing, error, result, progress, currentView, reading, nextRun,
          superseded, ended, walkRoot, walkStack, walkCalls>>

\* The result of a call: none yet, or the value returned.
NotComputed == <<>>
Computed(v) == <<v>>
ValueOf(r) == r[1]

\* The variables of a part of the program that a specification leaves alone.
IdleFunctions ==
    /\ issues = <<>>
    /\ score = NotComputed
    /\ prevScore = NotComputed
    /\ deduped = NotComputed
    /\ rededuped = NotComputed

\* No walk has been started.
NoWalk == [t |-> "none"]

IdleWalk ==
    /\ walkRoot = NoWalk
    /\ walkStack = <<>>
    /\ walkCalls = <<>>

IdleAnalysis ==
    /\ resources = <<>>
    /\ hardeningRules = <<>>
    /\ seen = {}
    /\ securityIssues = NotComputed
    /\ previousSecurityIssues = NotComputed
    /\ dependencies = NotComputed
    /\ previousDependencies = NotComputed
    /\ network = NotComputed

IdleApp ==
    /\ isProcessing = FALSE
    /\ error = [t |-> "null"]
    /\ result = [t |-> "null"]
    /\ progress = 0
    /\ currentView = "upload"
    /\ reading = {}
    /\ nextRun = 1
    /\ superseded = {}
    /\ ended = NotComputed

(***************************************************************************)
(* Bounds of the model.                                                    *)
(***************************************************************************)
MaxScoreIssues == 5
MaxDedupIssues == 3

(***************************************************************************)
(* JavaScript numbers, as far as calculateSecurityScore needs them: an     *)
(* integer or NaN.                                                         *)
(***************************************************************************)
JsNum(n) == [nan |-> FALSE, n |-> n]
JsNaN == [nan |-> TRUE, n |-> 0]
isNaN(x) == x.nan
JsAdd(x, y) == IF x.nan \/ y.nan THEN JsNaN ELSE JsNum(x.n + y.n)
JsSub(x, y) == IF x.nan \/ y.nan THEN JsNaN ELSE JsNum(x.n - y.n)
MathMin(x, y) == IF x.nan \/ y.nan THEN JsNaN ELSE JsNum(IF x.n <= y.n THEN x.n ELSE y.n)
MathMax(x, y) == IF x.nan \/ y.nan THEN JsNaN ELSE JsNum(IF x.n >= y.n THEN x.n ELSE y.n)

Range(s) == {s[i] : i \in DOMAIN s}

(***************************************************************************)
(* SecurityIssue.  resource and title are strings (token sequences),       *)
(* category and severity are single tokens; severity may be any token or   *)
(* missing (NoSeverity).                                                   *)
(***************************************************************************)
NoSeverity == "undefined"
Issue(id, sev, cat, title, res) ==
    [id |-> id, severity |-> sev, category |-> cat, title |-> title, resource |-> res,
     details |-> "none"]
\* A finding of a hardening rule: details.violationDetails.violation is kept.
RuleIssue(id, sev, cat, title, res, violation) ==
    [id |-> id, severity |-> sev, category |-> cat, title |-> title, resource |-> res,
     details |-> violation]

(***************************************************************************)
(* calculateSecurityScore                                                  *)
(***************************************************************************)
weights == [critical |-> 25, high |-> 15, medium |-> 8, low |-> 3]

\* The filter left out: every issue reaches the sum.
validIssueUnfiltered(issue) == TRUE

\* issue.severity && weights.hasOwnProperty(issue.severity)
validIssue(issue) ==
    /\ issue.severity # NoSeverity
    /\ issue.severity \in DOMAIN weights

\* Names every object inherits from Object.prototype: weights[name] is then a
\* function, which is truthy, and sum + function is a string, not a number.
InheritedProperties == {"constructor"}

\* weights[issue.severity] || 0
weightOf(issue) ==
    IF issue.severity \in DOMAIN weights THEN JsNum(weights[issue.severity])
    ELSE IF issue.severity \in InheritedProperties THEN JsNaN
    ELSE JsNum(0)

validIssues(list) == SelectSeq(list, validIssue)

RECURSIVE totalDeduction(_)
totalDeduction(list) ==
    IF list = <<>> THEN JsNum(0)
    ELSE JsAdd(totalDeduction(SubSeq(list, 1, Len(list) - 1)), weightOf(list[Len(list)]))

\* The lower clamp left out: Math.min(100, 100 - totalDeduction) alone.
calculateSecurityScoreNoFloor(list) ==
    LET s == MathMin(JsNum(100), JsSub(JsNum(100), totalDeduction(validIssues(list))))
    IN  IF isNaN(s) THEN 85 ELSE s.n

calculateSecurityScore(list) ==
    LET s == MathMax(JsNum(0), MathMin(JsNum(100), JsSub(JsNum(100), totalDeduction(validIssues(list)))))
    IN  IF isNaN(s) THEN 85 ELSE s.n

(***************************************************************************)
(* deduplicateIssues                                                       *)
(***************************************************************************)
\* `${issue.resource}-${issue.category}-${issue.title}`
dedupKey(issue) == issue.resource \o <<"-">> \o <<issue.category>> \o <<"-">> \o issue.title

\* A Set that outlives the call that filled it.
staleSeen(previous) == previous

\* const seen = new Set<string>()
newSeen(previous) == {}

\* Two findings with the same resource, category and title.
SameTriple(f, g) ==
    /\ f.resource = g.resource
    /\ f.category = g.category
    /\ f.title = g.title

\* A filter callback that forgets a key when it drops a finding.
dedupStepForgets(acc, issue) ==
    IF dedupKey(issue) \in acc.seen
    THEN [kept |-> acc.kept, seen |-> acc.seen \ {dedupKey(issue)}]
    ELSE [kept |-> Append(acc.kept, issue), seen |-> acc.seen \cup {dedupKey(issue)}]

\* One step of the filter callback: the list kept so far and the keys seen.
dedupStep(acc, issue) ==
    IF dedupKey(issue) \in acc.seen
    THEN acc
    ELSE [kept |-> Append(acc.kept, issue), seen |-> acc.seen \cup {dedupKey(issue)}]

RECURSIVE dedupFold(_, _)
dedupFold(list, seen0) ==
    IF list = <<>> THEN [kept |-> <<>>, seen |-> seen0]
    ELSE dedupStep(dedupFold(SubSeq(list, 1, Len(list) - 1), seen0), list[Len(list)])

deduplicateIssues(list) == dedupFold(list, newSeen({})).kept

(***************************************************************************)
(* JavaScript values of a parsed state document.  An object is the         *)
(* sequence of its entries, in insertion order (the order Object.entries   *)
(* walks them in); a key is one token.                                     *)
(***************************************************************************)
Undef == [t |-> "undefined"]
Null == [t |-> "null"]
Bool(b) == [t |-> "bool", b |-> b]
Num(n) == [t |-> "num", n |-> n]
Str(s) == [t |-> "str", s |-> s]
Arr(a) == [t |-> "arr", a |-> a]
Obj(o) == [t |-> "obj", o |-> o]
Entry(k, v) == [k |-> k, v |-> v]

\* A call that returned v, and a call that threw.
Returned(v) == [raised |-> FALSE, value |-> v]
Raised == [raised |-> TRUE]

\* !!v
Truthy(v) ==
    CASE v.t = "undefined" -> FALSE
      [] v.t = "null" -> FALSE
      [] v.t = "bool" -> v.b
      [] v.t = "num" -> v.n # 0
      [] v.t = "str" -> v.s # <<>>
      [] OTHER -> TRUE

\* The decimal digits, for `[${index}]`.
Digits == <<"0", "1", "2", "3", "4", "5", "6", "7", "8", "9">>
IndexToken(index) == <<"[", Digits[index + 1], "]">>

RECURSIVE Concat(_)
Concat(seqs) == IF seqs = <<>> THEN <<>> ELSE Head(seqs) \o Concat(Tail(seqs))

\* TerraformResource, ResourceInstance
Resource(type, name, instances) ==
    [type |-> type, name |-> name, provider |-> <<"aws">>, instances |-> instances]
Instance(attributes, depends_on) == [attributes |-> attributes, depends_on |-> depends_on]

\* `${resource.type}.${resource.name}`
resourceKey(resource) == resource.type \o <<".">> \o resource.name

(***************************************************************************)
(* Property access and the operators the checkers use on attribute values. *)
(***************************************************************************)
\* v.k and v[k] throw a TypeError on these.
NullOrUndef(v) == v.t \in {"null", "undefined"}

\* v.k for a v that is neither null nor undefined.
Get(v, k) ==
    IF v.t = "obj" /\ \E n \in DOMAIN v.o : v.o[n].k = k
    THEN v.o[CHOOSE n \in DOMAIN v.o :
                 v.o[n].k = k /\ \A m \in DOMAIN v.o : v.o[m].k = k => m <= n].v
    ELSE Undef

\* v[0] for a v that is neither null nor undefined.
At0(v) ==
    CASE v.t = "arr" -> IF v.a = <<>> THEN Undef ELSE v.a[1]
      [] v.t = "str" -> IF v.s = <<>> THEN Undef ELSE Str(<<v.s[1]>>)
      [] OTHER -> Get(v, "0")

\* v?.k
OptGet(v, k) == IF NullOrUndef(v) THEN Undef ELSE Get(v, k)

\* v?.includes(x) calls a method only arrays and strings have.
IncludesThrows(v) == ~NullOrUndef(v) /\ v.t \notin {"arr", "str"}

\* v?.includes(token) for a v on which it does not throw.
Includes(v, token) ==
    CASE v.t = "arr" -> \E n \in DOMAIN v.a : v.a[n] = Str(<<token>>)
      [] v.t = "str" -> token \in Range(v.s)
      [] OTHER -> FALSE

IsTrue(v) == v = Bool(TRUE)

\* The first element of results other than "no", or "no".
RECURSIVE FirstDecisive(_)
FirstDecisive(results) ==
    IF results = <<>> THEN "no"
    ELSE IF Head(results) # "no" THEN Head(results)
    ELSE FirstDecisive(Tail(results))

(***************************************************************************)
(* HardeningRule.  id, check, category and title are strings; a keyword    *)
(* occurs in a string when it is one of its tokens.                        *)
(***************************************************************************)
Rule(id, title, category, severity, resource_type, check) ==
    [id |-> id, title |-> title, category |-> category, severity |-> severity,
     resource_type |-> resource_type, check |-> check]

\* String.prototype.toLowerCase on the tokens that have capitals.
LowerToken(token) ==
    CASE token = "Encrypt" -> "encrypt"
      [] token = "Public" -> "public"
      [] token = "Restrict" -> "restrict"
      [] token = "Exposure" -> "exposure"
      [] token = "Access" -> "access"
      [] token = "IAM" -> "iam"
      [] token = "Log" -> "log"
      [] token = "Privilege" -> "privilege"
      [] token = ".JSON" -> ".json"
      [] OTHER -> token
toLowerCase(text) == [n \in DOMAIN text |-> LowerToken(text[n])]

includes(text, keyword) == keyword \in Range(text)

\* ruleId.includes(k) || rule.check.toLowerCase().includes(k)
mentions(rule, keyword) ==
    includes(rule.id, keyword) \/ includes(toLowerCase(rule.check), keyword)

(***************************************************************************)
(* checkRuleViolation and its checkers.  A checker returns "null", the     *)
(* violation it found, or "throw" when it raises a TypeError.              *)
(***************************************************************************)
\* checkS3Rules with the logging rules ahead of the others.
checkS3RulesLoggingFirst(rule, attributes) ==
    IF ~\E k \in {"public", "encrypt", "version", "log"} : mentions(rule, k) THEN "null"
    ELSE IF NullOrUndef(attributes) THEN "throw"
    ELSE IF mentions(rule, "log") /\ ~Truthy(Get(attributes, "logging"))
    THEN "no_logging"
    ELSE IF /\ mentions(rule, "public")
            /\ Get(attributes, "acl") \in {Str(<<"public-read">>), Str(<<"public-read-write">>)}
    THEN "public_acl"
    ELSE IF /\ mentions(rule, "public")
            /\ Truthy(Get(attributes, "website"))
            /\ ~Truthy(Get(attributes, "block_public_acls"))
    THEN "public_website"
    ELSE IF /\ mentions(rule, "encrypt")
            /\ ~Truthy(Get(attributes, "server_side_encryption_configuration"))
    THEN "no_encryption"
    ELSE IF /\ mentions(rule, "version")
            /\ \/ ~Truthy(Get(attributes, "versioning"))
               \/ ~Truthy(OptGet(At0(Get(attributes, "versioning")), "enabled"))
    THEN "no_versioning"
    ELSE "null"

\* checkS3Rules reading versioning.enabled in place of versioning[0]?.enabled.
checkS3RulesFlatVersioning(rule, attributes) ==
    IF ~\E k \in {"public", "encrypt", "version", "log"} : mentions(rule, k) THEN "null"
    ELSE IF NullOrUndef(attributes) THEN "throw"
    ELSE IF /\ mentions(rule, "public")
            /\ Get(attributes, "acl") \in {Str(<<"public-read">>), Str(<<"public-read-write">>)}
    THEN "public_acl"
    ELSE IF /\ mentions(rule, "public")
            /\ Truthy(Get(attributes, "website"))
            /\ ~Truthy(Get(attributes, "block_public_acls"))
    THEN "public_website"
    ELSE IF /\ mentions(rule, "encrypt")
            /\ ~Truthy(Get(attributes, "server_side_encryption_configuration"))
    THEN "no_encryption"
    ELSE IF /\ mentions(rule, "version")
            /\ \/ ~Truthy(Get(attributes, "versioning"))
               \/ ~Truthy(OptGet(Get(attributes, "versioning"), "enabled"))
    THEN "no_versioning"
    ELSE IF mentions(rule, "log") /\ ~Truthy(Get(attributes, "logging"))
    THEN "no_logging"
    ELSE "null"

checkS3Rules(rule, attributes) ==
    IF ~\E k \in {"public", "encrypt", "version", "log"} : mentions(rule, k) THEN "null"
    ELSE IF NullOrUndef(attributes) THEN "throw"
    ELSE IF /\ mentions(rule, "public")
            /\ Get(attributes, "acl") \in {Str(<<"public-read">>), Str(<<"public-read-write">>)}
    THEN "public_acl"
    ELSE IF /\ mentions(rule, "public")
            /\ Truthy(Get(attributes, "website"))
            /\ ~Truthy(Get(attributes, "block_public_acls"))
    THEN "public_website"
    ELSE IF /\ mentions(rule, "encrypt")
            /\ ~Truthy(Get(attributes, "server_side_encryption_configuration"))
    THEN "no_encryption"
    ELSE IF /\ mentions(rule, "version")
            /\ \/ ~Truthy(Get(attributes, "versioning"))
               \/ ~Truthy(OptGet(At0(Get(attributes, "versioning")), "enabled"))
    THEN "no_versioning"
    ELSE IF mentions(rule, "log") /\ ~Truthy(Get(attributes, "logging"))
    THEN "no_logging"
    ELSE "null"

UnrestrictedCidr == "0.0.0.0/0"
dangerousPorts == {Num(22), Num(3389), Num(1433), Num(3306), Num(5432)}

\* for (const sgRule of rules): a truthy value that is no array and no string
\* is not iterable.
NotIterable(rules) == rules.t \notin {"arr", "str"}

\* a || b || []
FirstTruthy(a, b) == IF Truthy(a) THEN a ELSE IF Truthy(b) THEN b ELSE Arr(<<>>)

\* sgRule.cidr_blocks?.includes('0.0.0.0/0') on one entry: "yes", "no", "throw".
entryIsPublic(sgRule) ==
    IF NullOrUndef(sgRule) THEN "throw"
    ELSE IF IncludesThrows(Get(sgRule, "cidr_blocks")) THEN "throw"
    ELSE IF Includes(Get(sgRule, "cidr_blocks"), UnrestrictedCidr) THEN "yes"
    ELSE "no"

\* dangerousPorts.includes(sgRule.from_port) && sgRule.cidr_blocks?.includes(...)
entryIsDangerous(sgRule) ==
    IF NullOrUndef(sgRule) THEN "throw"
    ELSE IF Get(sgRule, "from_port") \notin dangerousPorts THEN "no"
    ELSE entryIsPublic(sgRule)

\* The entries a for...of over rules visits; a string yields its characters,
\* which have no properties of interest.
entriesOf(rules) == IF rules.t = "arr" THEN rules.a ELSE <<>>

restrictCheck(attributes) ==
    LET rules == FirstTruthy(Get(attributes, "ingress"), Get(attributes, "egress"))
        isRule == Get(attributes, "type") \in {Str(<<"ingress">>), Str(<<"egress">>)}
    IN  IF isRule
        THEN IF IncludesThrows(Get(attributes, "cidr_blocks")) THEN "throw"
             ELSE IF Includes(Get(attributes, "cidr_blocks"), UnrestrictedCidr)
             THEN "public_access"
             ELSE "no"
        ELSE IF NotIterable(rules) THEN "throw"
        ELSE LET first == FirstDecisive([n \in DOMAIN entriesOf(rules) |->
                              entryIsPublic(entriesOf(rules)[n])])
             IN  IF first = "yes" THEN "public_access_in_group" ELSE first

dangerousPortCheck(attributes) ==
    LET rules == FirstTruthy(Get(attributes, "ingress"), Undef)
    IN  IF NotIterable(rules) THEN "throw"
        ELSE LET first == FirstDecisive([n \in DOMAIN entriesOf(rules) |->
                              entryIsDangerous(entriesOf(rules)[n])])
             IN  IF first = "yes" THEN "dangerous_port_exposed" ELSE first

checkSecurityGroupRules(rule, attributes) ==
    LET restrict == mentions(rule, "restrict")
        ports == includes(rule.id, "ssh") \/ includes(rule.id, "rdp")
    IN  IF ~restrict /\ ~ports THEN "null"
        ELSE IF NullOrUndef(attributes) THEN "throw"
        ELSE IF restrict /\ restrictCheck(attributes) # "no" THEN restrictCheck(attributes)
        ELSE IF ports /\ dangerousPortCheck(attributes) # "no" THEN dangerousPortCheck(attributes)
        ELSE "null"

\* attributes.ebs_block_device.filter(device => !device.encrypted)
unencryptedDevices(devices) ==
    IF devices.t # "arr" THEN "throw"
    ELSE IF \E n \in DOMAIN devices.a : NullOrUndef(devices.a[n]) THEN "throw"
    ELSE IF \E n \in DOMAIN devices.a : ~Truthy(Get(devices.a[n], "encrypted")) THEN "yes"
    ELSE "no"

checkEC2Rules(rule, attributes) ==
    IF ~\E k \in {"encrypt", "public", "metadata"} : mentions(rule, k) THEN "null"
    ELSE IF NullOrUndef(attributes) THEN "throw"
    ELSE IF /\ mentions(rule, "encrypt")
            /\ Truthy(Get(attributes, "root_block_device"))
            /\ ~Truthy(OptGet(At0(Get(attributes, "root_block_device")), "encrypted"))
    THEN "unencrypted_root_volume"
    ELSE IF /\ mentions(rule, "encrypt")
            /\ Truthy(Get(attributes, "ebs_block_device"))
            /\ unencryptedDevices(Get(attributes, "ebs_block_device")) # "no"
    THEN IF unencryptedDevices(Get(attributes, "ebs_block_device")) = "throw"
         THEN "throw" ELSE "unencrypted_ebs_volumes"
    ELSE IF mentions(rule, "public") /\ IsTrue(Get(attributes, "associate_public_ip_address"))
    THEN "public_ip_assigned"
    ELSE IF /\ mentions(rule, "metadata")
            /\ \/ ~Truthy(Get(attributes, "metadata_options"))
               \/ OptGet(At0(Get(attributes, "metadata_options")), "http_tokens")
                      # Str(<<"required">>)
    THEN "imdsv1_enabled"
    ELSE "null"

\* v < 7 for a string v: Number(v) of a numeral, NaN otherwise.
StringBelowSeven(text) ==
    text = <<>> \/ (Len(text) = 1 /\ \E d \in 1..7 : text[1] = Digits[d])

\* v < 7 for an array v, which is compared through its string.
RECURSIVE ArrayBelowSeven(_)
ArrayBelowSeven(elements) ==
    IF elements = <<>> THEN TRUE
    ELSE IF Len(elements) > 1 THEN FALSE
    ELSE CASE elements[1].t \in {"null", "undefined"} -> TRUE
           [] elements[1].t = "num" -> elements[1].n < 7
           [] elements[1].t = "str" -> StringBelowSeven(elements[1].s)
           [] elements[1].t = "arr" -> ArrayBelowSeven(elements[1].a)
           [] OTHER -> FALSE

\* !v || v < 7
BelowSeven(v) ==
    \/ ~Truthy(v)
    \/ CASE v.t = "num" -> v.n < 7
          [] v.t = "bool" -> TRUE
          [] v.t = "str" -> StringBelowSeven(v.s)
          [] v.t = "arr" -> ArrayBelowSeven(v.a)
          [] OTHER -> FALSE

checkRDSRules(rule, attributes) ==
    IF ~\E k \in {"encrypt", "public", "backup", "deletion"} : mentions(rule, k) THEN "null"
    ELSE IF NullOrUndef(attributes) THEN "throw"
    ELSE IF mentions(rule, "encrypt") /\ ~Truthy(Get(attributes, "storage_encrypted"))
    THEN "storage_not_encrypted"
    ELSE IF mentions(rule, "public") /\ IsTrue(Get(attributes, "publicly_accessible"))
    THEN "publicly_accessible"
    ELSE IF mentions(rule, "backup") /\ BelowSeven(Get(attributes, "backup_retention_period"))
    THEN "insufficient_backup_retention"
    ELSE IF mentions(rule, "deletion") /\ ~Truthy(Get(attributes, "deletion_protection"))
    THEN "deletion_protection_disabled"
    ELSE "null"

checkEBSRules(rule, attributes) ==
    IF ~mentions(rule, "encrypt") THEN "null"
    ELSE IF NullOrUndef(attributes) THEN "throw"
    ELSE IF ~Truthy(Get(attributes, "encrypted")) THEN "volume_not_encrypted"
    ELSE "null"

encryptionFields == {"encrypted", "encryption", "kms_key_id", "server_side_encryption"}
publicFields == {"public", "publicly_accessible", "public_access"}

checkGenericRules(rule, attributes) ==
    LET ruleCheck == toLowerCase(rule.check)
    IN  IF ~includes(ruleCheck, "encrypt") /\ ~includes(ruleCheck, "public") THEN "null"
        ELSE IF NullOrUndef(attributes) THEN "throw"
        ELSE IF /\ includes(ruleCheck, "encrypt")
                /\ ~\E field \in encryptionFields :
                       Get(attributes, field) \notin {Undef, Bool(FALSE)}
        THEN "encryption_not_configured"
        ELSE IF /\ includes(ruleCheck, "public")
                /\ \E field \in publicFields : IsTrue(Get(attributes, field))
        THEN "public_access_enabled"
        ELSE "null"

(***************************************************************************)
(* Policy documents.  A string attribute that holds the JSON text of a     *)
(* value carries that value; JSON.parse returns it, and throws a           *)
(* SyntaxError on a string that is no JSON text.                           *)
(***************************************************************************)
JsonText(v) == [t |-> "str", s |-> <<"{json}">>, json |-> v]

JSONparse(v) ==
    IF "json" \in DOMAIN v THEN Returned(v.json)
    ELSE IF v.s = <<"null">> THEN Returned(Null)
    ELSE IF v.s = <<"true">> THEN Returned(Bool(TRUE))
    ELSE IF v.s = <<"false">> THEN Returned(Bool(FALSE))
    ELSE IF Len(v.s) = 1 /\ \E d \in DOMAIN Digits : v.s[1] = Digits[d]
    THEN Returned(Num((CHOOSE d \in DOMAIN Digits : v.s[1] = Digits[d]) - 1))
    ELSE Raised

Wildcard == Str(<<"*">>)

\* x === '*' || (Array.isArray(x) && x.includes('*'))
isWildcard(x) == x = Wildcard \/ (x.t = "arr" /\ \E n \in DOMAIN x.a : x.a[n] = Wildcard)

\* adminActions.some(admin => action.includes(admin.replace('*', ''))): the
\* first admin action is '*', whose replacement '' every string includes;
\* an array includes one of '', 'iam:', 's3:', 'ec2:' only as an element.
adminPrefixes == {<<>>, <<"iam", ":">>, <<"s3", ":">>, <<"ec2", ":">>}
actionIsAdmin(action) ==
    CASE action.t = "str" -> "yes"
      [] action.t = "arr" ->
            IF \E n \in DOMAIN action.a :
                  action.a[n].t = "str" /\ action.a[n].s \in adminPrefixes
            THEN "yes" ELSE "no"
      [] OTHER -> "throw"

\* One pass of the loop body over a statement: "throw", "no" or a violation.
statementViolation(statement) ==
    IF NullOrUndef(statement) THEN "throw"
    ELSE IF Get(statement, "Effect") # Str(<<"Allow">>) THEN "no"
    ELSE IF isWildcard(Get(statement, "Resource")) THEN "wildcard_resource"
    ELSE IF isWildcard(Get(statement, "Action")) THEN "wildcard_action"
    ELSE LET action == Get(statement, "Action")
             actions == IF action.t = "arr" THEN action.a ELSE <<action>>
             hasAdminActions == FirstDecisive([n \in DOMAIN actions |->
                                                  actionIsAdmin(actions[n])])
         IN  IF hasAdminActions = "throw" THEN "throw"
             ELSE IF hasAdminActions = "yes" /\ Get(statement, "Resource") = Wildcard
             THEN "admin_permissions"
             ELSE "no"

\* The body of the try block, given the parsed policy.
policyViolation(policy) ==
    IF ~Truthy(OptGet(policy, "Statement")) THEN "no"
    ELSE LET statements == Get(policy, "Statement")
         IN  IF NotIterable(statements) THEN "throw"
             ELSE FirstDecisive([n \in DOMAIN entriesOf(statements) |->
                                    statementViolation(entriesOf(statements)[n])])

checkIAMRules(rule, attributes) ==
    IF ~mentions(rule, "privilege") THEN "null"
    ELSE IF NullOrUndef(attributes) THEN "policy_parse_error"
    ELSE LET parsed == IF Get(attributes, "policy").t = "str"
                       THEN JSONparse(Get(attributes, "policy"))
                       ELSE Returned(Get(attributes, "policy"))
         IN  IF parsed.raised THEN "policy_parse_error"
             ELSE IF policyViolation(parsed.value) = "throw" THEN "policy_parse_error"
             ELSE IF policyViolation(parsed.value) = "no" THEN "null"
             ELSE policyViolation(parsed.value)

S3Type == <<"aws_s3_bucket">>
SecurityGroupType == <<"aws_security_group">>
SecurityGroupRuleType == <<"aws_security_group_rule">>
IAMTypes == {<<"aws_iam_policy">>, <<"aws_iam_role_policy">>, <<"aws_iam_user_policy">>}
EC2Type == <<"aws_instance">>
RDSType == <<"aws_db_instance">>
EBSType == <<"aws_ebs_volume">>

checkRuleViolation(rule, resourceType, attributes) ==
    CASE resourceType = S3Type -> checkS3Rules(rule, attributes)
      [] resourceType \in {SecurityGroupType, SecurityGroupRuleType} ->
            checkSecurityGroupRules(rule, attributes)
      [] resourceType \in IAMTypes -> checkIAMRules(rule, attributes)
      [] resourceType = EC2Type -> checkEC2Rules(rule, attributes)
      [] resourceType = RDSType -> checkRDSRules(rule, attributes)
      [] resourceType = EBSType -> checkEBSRules(rule, attributes)
      [] OTHER -> checkGenericRules(rule, attributes)

mapCategory(ruleCategory) ==
    LET category == toLowerCase(ruleCategory)
    IN  IF includes(category, "public") \/ includes(category, "exposure")
        THEN "public_exposure"
        ELSE IF includes(category, "encrypt") THEN "encryption"
        ELSE IF \/ includes(category, "access")
                \/ includes(category, "iam")
                \/ includes(category, "privilege")
        THEN "access_control"
        ELSE "compliance"

\* A list of calls of which any may have thrown: the concatenation of what
\* they returned, or the exception of the first that threw.
RECURSIVE Collect(_)
Collect(calls) ==
    IF calls = <<>> THEN Returned(<<>>)
    ELSE IF Head(calls).raised THEN Raised
    ELSE IF Collect(Tail(calls)).raised THEN Raised
    ELSE Returned(Head(calls).value \o Collect(Tail(calls)).value)

\* The rules of the catalog that apply to a resource type, in catalog order.
applicableRules(catalog, resourceType) ==
    SelectSeq(catalog, LAMBDA rule :
        rule.resource_type = resourceType \/ rule.resource_type = <<"all">>)

\* The body of applicableRules.forEach for one rule and one instance.
ruleOutcome(rule, resourceType, instanceId, attributes) ==
    LET violation == checkRuleViolation(rule, resourceType, attributes)
    IN  IF violation = "throw" THEN Raised
        ELSE IF violation = "null" THEN Returned(<<>>)
        ELSE Returned(<<RuleIssue(rule.id \o <<"-">> \o instanceId, rule.severity,
                                  mapCategory(rule.category), rule.title, instanceId,
                                  violation)>>)

applyHardeningRules(catalog, resource) ==
    LET rules == applicableRules(catalog, resource.type)
        ofInstance(index) ==
            Collect([n \in DOMAIN rules |->
                ruleOutcome(rules[n], resource.type,
                            resourceKey(resource) \o IndexToken(index - 1),
                            resource.instances[index].attributes)])
    IN  Collect([index \in DOMAIN resource.instances |-> ofInstance(index)])

(***************************************************************************)
(* The legacy checks.  Each returns the findings it pushed, or throws.     *)
(***************************************************************************)
\* A legacy finding whose id leaves out the instance identifier.
LegacyIssueUnqualified(resourceId, suffix, severity, category, title) ==
    Issue(Tail(suffix), severity, category, title, resourceId)

LegacyIssue(resourceId, suffix, severity, category, title) ==
    Issue(resourceId \o suffix, severity, category, title, resourceId)

\* The body of rules.forEach((rule, idx) => ...) for one entry.
legacyGroupEntry(resourceId, rule, idx) ==
    IF entryIsPublic(rule) = "throw" THEN Raised
    ELSE IF entryIsPublic(rule) = "no" THEN Returned(<<>>)
    ELSE Returned(<<LegacyIssue(resourceId,
                        <<"-", "rule", "-", Digits[idx + 1], "-", "public">>,
                        IF Get(rule, "from_port") \in {Num(22), Num(3389)}
                        THEN "critical" ELSE "high",
                        "public_exposure", <<"Security Group Allows Public Access">>)>>)

checkPublicExposure(resourceId, type, attributes) ==
    IF type \in {SecurityGroupType, SecurityGroupRuleType}
    THEN IF NullOrUndef(attributes) THEN Raised
         ELSE LET rules == FirstTruthy(Get(attributes, "ingress"), Get(attributes, "egress"))
              IN  IF type = SecurityGroupRuleType
                  THEN IF IncludesThrows(Get(attributes, "cidr_blocks")) THEN Raised
                       ELSE IF Includes(Get(attributes, "cidr_blocks"), UnrestrictedCidr)
                       THEN Returned(<<LegacyIssue(resourceId, <<"-", "public", "-", "access">>,
                                         "high", "public_exposure",
                                         <<"Security Group Rule Allows Public Access">>)>>)
                       ELSE Returned(<<>>)
                  ELSE IF rules.t # "arr" THEN Raised
                  ELSE Collect([n \in DOMAIN rules.a |->
                                   legacyGroupEntry(resourceId, rules.a[n], n - 1)])
    ELSE IF type = <<"aws_s3_bucket_public_access_block">>
    THEN IF NullOrUndef(attributes) THEN Raised
         ELSE IF \/ ~Truthy(Get(attributes, "block_public_acls"))
                 \/ ~Truthy(Get(attributes, "block_public_policy"))
         THEN Returned(<<LegacyIssue(resourceId, <<"-", "s3", "-", "public">>, "high",
                           "public_exposure", <<"S3 Bucket Allows Public Access">>)>>)
         ELSE Returned(<<>>)
    ELSE Returned(<<>>)

\* The field, suffix, severity and title of the encryption check of a type.
encryptionChecks ==
    {[type |-> EBSType, field |-> "encrypted", suffix |-> <<"-", "encryption">>,
      severity |-> "medium", title |-> <<"EBS Volume Not Encrypted">>],
     [type |-> RDSType, field |-> "storage_encrypted",
      suffix |-> <<"-", "db", "-", "encryption">>,
      severity |-> "high", title |-> <<"RDS Instance Not Encrypted">>],
     [type |-> S3Type, field |-> "server_side_encryption_configuration",
      suffix |-> <<"-", "s3", "-", "encryption">>,
      severity |-> "medium", title |-> <<"S3 Bucket Not Encrypted">>]}

checkEncryption(resourceId, type, attributes) ==
    IF ~\E c \in encryptionChecks : c.type = type THEN Returned(<<>>)
    ELSE LET c == CHOOSE c \in encryptionChecks : c.type = type
         IN  IF NullOrUndef(attributes) THEN Raised
             ELSE IF ~Truthy(Get(attributes, c.field))
             THEN Returned(<<LegacyIssue(resourceId, c.suffix, c.severity, "encryption",
                               c.title)>>)
             ELSE Returned(<<>>)

\* policy.Statement?.some(stmt => stmt.Effect === 'Allow' && stmt.Resource === '*')
\* inside the try block: TRUE when it returns true, FALSE when it returns
\* false or throws.
someAllowAll(policy) ==
    /\ ~NullOrUndef(policy)
    /\ Get(policy, "Statement").t = "arr"
    /\ LET statements == Get(policy, "Statement").a
           test(stmt) == IF NullOrUndef(stmt) THEN "throw"
                         ELSE IF /\ Get(stmt, "Effect") = Str(<<"Allow">>)
                                 /\ Get(stmt, "Resource") = Wildcard
                         THEN "yes" ELSE "no"
       IN  FirstDecisive([n \in DOMAIN statements |-> test(statements[n])]) = "yes"

checkAccessControl(resourceId, type, attributes) ==
    IF type = <<"aws_default_vpc">>
    THEN IF NullOrUndef(attributes) THEN Raised
         ELSE Returned(<<LegacyIssue(resourceId, <<"-", "default", "-", "vpc">>, "low",
                           "access_control", <<"Using Default VPC">>)>>)
    ELSE IF type = <<"aws_iam_policy">>
    THEN IF NullOrUndef(attributes) THEN Raised
         ELSE IF ~Truthy(Get(attributes, "policy")) THEN Returned(<<>>)
         ELSE LET parsed == IF Get(attributes, "policy").t = "str"
                            THEN JSONparse(Get(attributes, "policy"))
                            ELSE Returned(Get(attributes, "policy"))
              IN  IF ~parsed.raised /\ someAllowAll(parsed.value)
                  THEN Returned(<<LegacyIssue(resourceId,
                                    <<"-", "overly", "-", "permissive">>, "medium",
                                    "access_control", <<"Overly Permissive IAM Policy">>)>>)
                  ELSE Returned(<<>>)
    ELSE Returned(<<>>)

analyzeResource(resource) ==
    LET ofInstance(index) ==
            LET instanceId == resourceKey(resource) \o IndexToken(index - 1)
                attributes == resource.instances[index].attributes
            IN  Collect(<<checkPublicExposure(instanceId, resource.type, attributes),
                          checkEncryption(instanceId, resource.type, attributes),
                          checkAccessControl(instanceId, resource.type, attributes)>>)
    IN  Collect([index \in DOMAIN resource.instances |-> ofInstance(index)])

\* The loop of analyzeResources: what both passes pushed for every resource.
collectIssues(catalog, rs) ==
    Collect([n \in DOMAIN rs |->
        Collect(<<applyHardeningRules(catalog, rs[n]), analyzeResource(rs[n])>>)])

\* return this.deduplicateIssues(issues), with the Set deduplicateIssues
\* starts from made explicit: what the call did, and the Set as it leaves it.
deduplicated(collected, seen0) ==
    IF collected.raised THEN [outcome |-> Raised, seen |-> seen0]
    ELSE [outcome |-> Returned(dedupFold(collected.value, newSeen(seen0)).kept),
          seen |-> dedupFold(collected.value, newSeen(seen0)).seen]

analyzeResourcesFrom(catalog, rs, seen0) == deduplicated(collectIssues(catalog, rs), seen0)

analyzeResources(catalog, rs) == analyzeResourcesFrom(catalog, rs, {}).outcome

(***************************************************************************)
(* DependencyAnalyzer                                                      *)
(***************************************************************************)
Dependency(source, target, type, relationship) ==
    [source |-> source, target |-> target, type |-> type, relationship |-> relationship]

\* resourceMap, used for has() alone: the set of its keys.
resourceMap(rs) == {resourceKey(rs[i]) : i \in DOMAIN rs}

\* searchForReferences: the (path, value) pairs the callback is called with,
\* in call order.
RECURSIVE searchForReferences(_, _)
searchForReferences(obj, path) ==
    IF obj.t \notin {"arr", "obj"}
    THEN <<[path |-> path, value |-> obj]>>
    ELSE IF obj.t = "arr"
    THEN Concat([i \in DOMAIN obj.a |->
            searchForReferences(obj.a[i], path \o IndexToken(i - 1))])
    ELSE Concat([i \in DOMAIN obj.o |->
            searchForReferences(obj.o[i].v,
                IF path # <<>> THEN path \o <<".", obj.o[i].k>> ELSE <<obj.o[i].k>>)])

\* refPattern = /\$\{([^.]+\.[^.}]+)(?:\.[^}]+)?\}/g on a token string whose
\* tokens are "${", "}", "." and runs of other characters.
NoMatch == [found |-> FALSE]
FirstAfter(s, i, tokens) ==
    LET at == {k \in (i + 1)..Len(s) : s[k] \in tokens}
    IN  IF at = {} THEN 0 ELSE CHOOSE k \in at : \A m \in at : k <= m

\* The match that starts at token i, if any: group 1 and the last token matched.
refPatternAt(s, i) ==
    IF s[i] # "${" THEN NoMatch
    ELSE LET j == FirstAfter(s, i, {"."})                  \* [^.]+ ends before it
         IN  IF j = 0 \/ j = i + 1 THEN NoMatch
             ELSE LET k == FirstAfter(s, j, {".", "}"})    \* [^.}]+ ends before it
                  IN  IF k = 0 \/ k = j + 1 THEN NoMatch
                      ELSE IF s[k] = "}"
                      THEN [found |-> TRUE, group1 |-> SubSeq(s, i + 1, k - 1), end |-> k]
                      ELSE LET m == FirstAfter(s, k, {"}"}) \* (?:\.[^}]+)?\}
                           IN  IF m = 0 \/ m = k + 1 THEN NoMatch
                               ELSE [found |-> TRUE, group1 |-> SubSeq(s, i + 1, k - 1),
                                     end |-> m]

\* while ((match = refPattern.exec(value)) !== null): every match[1], the
\* search resuming at lastIndex.
RECURSIVE refPatternExec(_, _)
refPatternExec(s, lastIndex) ==
    LET starts == {i \in (lastIndex + 1)..Len(s) : refPatternAt(s, i).found}
    IN  IF starts = {} THEN <<>>
        ELSE LET i == CHOOSE k \in starts : \A m \in starts : k <= m
                 match == refPatternAt(s, i)
             IN  <<match.group1>> \o refPatternExec(s, match.end)

\* The comparison with sourceId left out.
acceptReferenceToSelf(referencedResource, sourceId, map) == referencedResource \in map

\* The lookup in resourceMap left out.
acceptReferenceUnchecked(referencedResource, sourceId, map) == referencedResource # sourceId

\* resourceMap.has(referencedResource) && referencedResource !== sourceId
acceptReference(referencedResource, sourceId, map) ==
    referencedResource \in map /\ referencedResource # sourceId

\* The callback of findImplicitDependencies on one leaf.
leafDependencies(sourceId, leaf, map) ==
    IF leaf.value.t # "str" THEN <<>>
    ELSE LET found == refPatternExec(leaf.value.s, 0)
             edge(ref) == Dependency(sourceId, ref, "implicit",
                              IF leaf.path # <<>> THEN leaf.path ELSE <<"attribute_reference">>)
         IN  [n \in DOMAIN SelectSeq(found, LAMBDA ref : acceptReference(ref, sourceId, map)) |->
                 edge(SelectSeq(found, LAMBDA ref : acceptReference(ref, sourceId, map))[n])]

findImplicitDependencies(sourceId, attributes, map) ==
    LET leaves == searchForReferences(attributes, <<>>)
    IN  Concat([n \in DOMAIN leaves |-> leafDependencies(sourceId, leaves[n], map)])

\* instance.depends_on.forEach on a truthy value that is no array is a TypeError.
dependsOnThrows(instance) ==
    Truthy(instance.depends_on) /\ instance.depends_on.t # "arr"

\* A string value stands for its characters; any other value for itself.
stringOf(v) == IF v.t = "str" THEN v.s ELSE v

\* One edge per distinct target of the list instead of one per entry.
explicitOfInstanceUnique(sourceId, instance) ==
    IF ~Truthy(instance.depends_on) THEN <<>>
    ELSE LET deps == instance.depends_on.a
             firsts == SelectSeq([n \in DOMAIN deps |-> n],
                           LAMBDA n : \A m \in 1..(n - 1) : deps[m] # deps[n])
         IN  [n \in DOMAIN firsts |->
                 Dependency(sourceId, stringOf(deps[firsts[n]]), "explicit", <<"depends_on">>)]

explicitOfInstance(sourceId, instance) ==
    IF ~Truthy(instance.depends_on) THEN <<>>
    ELSE [n \in DOMAIN instance.depends_on.a |->
            Dependency(sourceId, stringOf(instance.depends_on.a[n]), "explicit",
                       <<"depends_on">>)]

explicitDependencies(rs) ==
    Concat([r \in DOMAIN rs |->
        Concat([i \in DOMAIN rs[r].instances |->
            explicitOfInstance(resourceKey(rs[r]), rs[r].instances[i])])])

implicitDependencies(rs) ==
    Concat([r \in DOMAIN rs |->
        Concat([i \in DOMAIN rs[r].instances |->
            findImplicitDependencies(resourceKey(rs[r]),
                rs[r].instances[i].attributes, resourceMap(rs))])])

\* analyzeDependencies keeping the first edge of every (source, target) pair.
analyzeDependenciesDeduplicated(rs) ==
    IF \E r \in DOMAIN rs : \E i \in DOMAIN rs[r].instances :
            dependsOnThrows(rs[r].instances[i])
    THEN Raised
    ELSE LET all == explicitDependencies(rs) \o implicitDependencies(rs)
             firsts == SelectSeq([n \in DOMAIN all |-> n],
                           LAMBDA n : \A m \in 1..(n - 1) :
                               \/ all[m].source # all[n].source
                               \/ all[m].target # all[n].target)
         IN  Returned([n \in DOMAIN firsts |-> all[firsts[n]]])

analyzeDependencies(rs) ==
    IF \E r \in DOMAIN rs : \E i \in DOMAIN rs[r].instances :
            dependsOnThrows(rs[r].instances[i])
    THEN Raised
    ELSE Returned(explicitDependencies(rs) \o implicitDependencies(rs))

\* DependencyAnalyzer.getResourceNetwork(dependencies, resources): the nodes
\* and links of the graph view.
Node(resource) ==
    [id |-> resource.type \o <<".">> \o resource.name, type |-> resource.type,
     name |-> resource.name, provider |-> resource.provider]
Link(dep) ==
    [source |-> dep.source, target |-> dep.target, type |-> dep.type,
     relationship |-> dep.relationship]

\* getResourceNetwork with a node added for every link target that is no
\* resource of the document.
getResourceNetworkWithTargets(deps, rs) ==
    LET unknown == SelectSeq(deps, LAMBDA dep :
                       \A r \in DOMAIN rs : dep.target # resourceKey(rs[r]))
    IN  [nodes |-> [r \in DOMAIN rs |-> Node(rs[r])]
                   \o [n \in DOMAIN unknown |->
                          [id |-> unknown[n].target, type |-> <<"unknown">>,
                           name |-> unknown[n].target, provider |-> <<"unknown">>]],
         links |-> [n \in DOMAIN deps |-> Link(deps[n])]]

getResourceNetwork(deps, rs) ==
    [nodes |-> [r \in DOMAIN rs |-> Node(rs[r])],
     links |-> [n \in DOMAIN deps |-> Link(deps[n])]]

(***************************************************************************)
(* SpecAnalysis: analyzeResources and analyzeDependencies, each called     *)
(* any number of times on one document under one rule catalog.             *)
(***************************************************************************)
MaxResources == 2

\* "${type.name.attribute}" and "${type.name}"
Ref(type, name) == <<"${", type, ".", name, ".", "id", "}">>
ShortRef(type, name) == <<"${", type, ".", name, "}">>

WebType == <<"aws_instance">>
SgType == <<"aws_security_group">>
DbType == <<"aws_db_instance">>
WebId == <<"aws_instance", ".", "web">>
SgId == <<"aws_security_group", ".", "sg">>
DbId == <<"aws_db_instance", ".", "db">>

\* Resources whose attributes and depends_on lists exercise the resolver.
DependencyResources == {
    \* a reference inside a list
    Resource(WebType, <<"web">>, <<Instance(
        Obj(<<Entry("vpc_security_group_ids", Arr(<<Str(Ref("aws_security_group", "sg"))>>))>>),
        Undef)>>),
    \* the same target declared and referenced
    Resource(WebType, <<"web">>, <<Instance(
        Obj(<<Entry("vpc_security_group_ids", Arr(<<Str(Ref("aws_security_group", "sg"))>>))>>),
        Arr(<<Str(SgId)>>))>>),
    \* a reference to the resource itself, beside leaves that are no strings
    Resource(WebType, <<"web">>, <<Instance(
        Obj(<<Entry("arn", Str(Ref("aws_instance", "web"))), Entry("count", Num(5)),
              Entry("tags", Null)>>),
        Undef)>>),
    \* a reference to a resource that may be absent, a declared target likewise
    Resource(WebType, <<"web">>, <<Instance(
        Obj(<<Entry("db_host", Str(Ref("aws_db_instance", "db")))>>),
        Arr(<<Str(DbId)>>))>>),
    \* two references in one string, text around them
    Resource(WebType, <<"web">>, <<Instance(
        Obj(<<Entry("user_data", Str(<<"echo", " ">> \o Ref("aws_security_group", "sg")
                  \o <<" ">> \o ShortRef("aws_db_instance", "db")))>>),
        Undef)>>),
    \* an interpolation without a dot before a reference
    Resource(WebType, <<"web">>, <<Instance(
        Obj(<<Entry("user_data", Str(<<"${", "count", "}", " ">>
                  \o Ref("aws_security_group", "sg")))>>),
        Undef)>>),
    Resource(SgType, <<"sg">>, <<Instance(Obj(<<>>), Undef)>>),
    \* a nested reference, a null entry, an empty depends_on list
    Resource(SgType, <<"sg">>, <<Instance(
        Obj(<<Entry("ingress", Arr(<<Null,
                  Obj(<<Entry("security_groups", Arr(<<Str(ShortRef("aws_instance", "web"))>>))>>)>>))>>),
        Arr(<<>>))>>),
    \* the resource declares a dependency on itself
    Resource(SgType, <<"sg">>, <<Instance(
        Obj(<<Entry("self_ref", Str(Ref("aws_security_group", "sg")))>>),
        Arr(<<Str(SgId)>>))>>),
    \* a declared target that names nothing in any document
    Resource(DbType, <<"db">>, <<Instance(Obj(<<>>), Arr(<<Str(<<"module", ".", "missing">>)>>))>>),
    \* two instances, the second lists one target twice
    Resource(DbType, <<"db">>, <<
        Instance(Obj(<<Entry("sg", Str(Ref("aws_security_group", "sg")))>>), Arr(<<Str(WebId)>>)),
        Instance(Obj(<<Entry("web", Str(Ref("aws_instance", "web")))>>),
                 Arr(<<Str(SgId), Str(SgId)>>))>>),
    \* attributes: null
    Resource(DbType, <<"db">>, <<Instance(Null, Undef)>>)
    }

\* Every sequence of at most n elements of S.
RECURSIVE SeqsUpTo(_, _)
SeqsUpTo(S, n) ==
    IF n = 0 THEN {<<>>}
    ELSE LET shorter == SeqsUpTo(S, n - 1)
         IN  shorter \cup {Append(q, x) : q \in shorter, x \in S}

DependencyDocuments == SeqsUpTo(DependencyResources, MaxResources)

\* Attribute values the evaluator's resources are built from.
OpenCidrs == Arr(<<Str(<<UnrestrictedCidr>>)>>)
SshFromAnywhere == Obj(<<Entry("from_port", Num(22)), Entry("cidr_blocks", OpenCidrs)>>)
HttpFromAnywhere == Obj(<<Entry("from_port", Num(80)), Entry("cidr_blocks", OpenCidrs)>>)
Enabled == Arr(<<Obj(<<Entry("enabled", Bool(TRUE))>>)>>)
Encrypted == Arr(<<Obj(<<Entry("encrypted", Bool(TRUE))>>)>>)
Configured == Arr(<<Obj(<<>>)>>)

\* One instance with the given attributes and no depends_on.
Single(attributes) == <<Instance(attributes, Undef)>>

\* The attributes of an identity-policy instance, and a policy document with
\* one Allow statement.
PolicyAttributes(policy) == Obj(<<Entry("name", Str(<<"p">>)), Entry("policy", policy)>>)
Policy(action, resource) ==
    Obj(<<Entry("Version", Str(<<"2012", "-", "10", "-", "17">>)),
          Entry("Statement", Arr(<<Obj(<<Entry("Effect", Str(<<"Allow">>)),
                                         Entry("Action", action),
                                         Entry("Resource", resource)>>)>>))>>)
ScopedActions == Arr(<<Str(<<"s3:GetObject">>), Str(<<"s3:ListBucket">>)>>)

\* Well-formed and malformed resources of the types the evaluator knows.
EvaluatorResources == {
    \* a hardened bucket
    Resource(S3Type, <<"logs">>, Single(Obj(<<
        Entry("acl", Str(<<"private">>)),
        Entry("server_side_encryption_configuration", Configured),
        Entry("versioning", Enabled),
        Entry("logging", Configured)>>))),
    \* a bucket with a public ACL and nothing else
    Resource(S3Type, <<"data">>, Single(Obj(<<Entry("acl", Str(<<"public-read">>))>>))),
    \* "attributes": null
    Resource(S3Type, <<"ghost">>, Single(Null)),
    \* SSH open to the world
    Resource(SecurityGroupType, <<"web">>,
        Single(Obj(<<Entry("ingress", Arr(<<SshFromAnywhere>>))>>))),
    \* no ingress entry, and an egress entry open to the world
    Resource(SecurityGroupType, <<"out">>,
        Single(Obj(<<Entry("ingress", Arr(<<>>)),
                     Entry("egress", Arr(<<HttpFromAnywhere>>))>>))),
    \* HTTP and SSH open to the world, in this order
    Resource(SecurityGroupType, <<"mixed">>,
        Single(Obj(<<Entry("ingress", Arr(<<HttpFromAnywhere, SshFromAnywhere>>))>>))),
    \* "ingress" an object where a list is expected
    Resource(SecurityGroupType, <<"flat">>,
        Single(Obj(<<Entry("ingress", SshFromAnywhere)>>))),
    \* a null entry in "ingress"
    Resource(SecurityGroupType, <<"hole">>,
        Single(Obj(<<Entry("ingress", Arr(<<Null, SshFromAnywhere>>))>>))),
    \* a standalone rule open to the world
    Resource(SecurityGroupRuleType, <<"allow">>, Single(Obj(<<
        Entry("type", Str(<<"ingress">>)),
        Entry("from_port", Num(443)),
        Entry("cidr_blocks", OpenCidrs)>>))),
    \* an instance with a public address and an unencrypted root volume
    Resource(EC2Type, <<"bastion">>, Single(Obj(<<
        Entry("root_block_device", Arr(<<Obj(<<Entry("encrypted", Bool(FALSE))>>)>>)),
        Entry("associate_public_ip_address", Bool(TRUE))>>))),
    \* a database with a short backup retention
    Resource(RDSType, <<"db">>, Single(Obj(<<
        Entry("storage_encrypted", Bool(TRUE)),
        Entry("backup_retention_period", Num(1))>>))),
    \* a volume
    Resource(EBSType, <<"disk">>, Single(Obj(<<Entry("encrypted", Bool(FALSE))>>))),
    \* a type without a checker of its own
    Resource(<<"aws_sqs_queue">>, <<"jobs">>, Single(Obj(<<Entry("public", Bool(TRUE))>>))),
    \* an encrypted, versioned, private bucket that hosts a website and keeps
    \* no access log
    Resource(S3Type, <<"site">>, Single(Obj(<<
        Entry("acl", Str(<<"private">>)),
        Entry("server_side_encryption_configuration", Configured),
        Entry("versioning", Enabled),
        Entry("website", Configured)>>))),
    \* a policy whose text is no JSON
    Resource(<<"aws_iam_policy">>, <<"broken">>, Single(PolicyAttributes(Str(<<"{", "Statement">>)))),
    \* Allow * on *, as JSON text and structured
    Resource(<<"aws_iam_policy">>, <<"admin">>,
        Single(PolicyAttributes(JsonText(Policy(Wildcard, Wildcard))))),
    Resource(<<"aws_iam_role_policy">>, <<"root">>,
        Single(PolicyAttributes(Policy(Wildcard, Wildcard)))),
    \* the same policy with a scoped action list
    Resource(<<"aws_iam_policy">>, <<"reader">>,
        Single(PolicyAttributes(JsonText(Policy(ScopedActions, Wildcard))))),
    \* a scoped action list on a scoped resource
    Resource(<<"aws_iam_user_policy">>, <<"scoped">>,
        Single(PolicyAttributes(Policy(ScopedActions, Str(<<"arn:aws:s3:::logs">>)))))
}

EvaluatorDocuments == SeqsUpTo(EvaluatorResources, MaxResources)

\* Rules of the kinds the catalog holds.
RuleS3Encrypt ==
    Rule(<<"s3", "-", "encrypt">>, <<"Encrypt Buckets">>, <<"Encrypt", "ion">>, "high",
         S3Type, <<"Enable", "version", "ing", "and", "access", "log", "ging">>)
RuleS3Public ==
    Rule(<<"AWS", "-", "S3", "-", "2">>, <<"Block Public Buckets">>, <<"Public", "Access">>,
         "critical", S3Type, <<"Block", "Public", "ACLs">>)
RuleRestrict ==
    Rule(<<"sg", "-", "restrict">>, <<"Restrict Ingress">>, <<"Network", "Exposure">>,
         "critical", SecurityGroupType, <<"Restrict", "ingress">>)
RuleSsh ==
    Rule(<<"sg", "-", "ssh">>, <<"No Open SSH">>, <<"Network">>, "high",
         SecurityGroupType, <<"No", "admin", "ports", "from", "anywhere">>)
RuleRestrictRule ==
    Rule(<<"sgr", "-", "1">>, <<"Restrict Ingress">>, <<"Network", "Exposure">>,
         "high", SecurityGroupRuleType, <<"Restrict", "source", "ranges">>)
RuleInstance ==
    Rule(<<"ec2", "-", "1">>, <<"Harden Instances">>, <<"Compute">>, "medium",
         EC2Type, <<"Encrypt", "volumes", "and", "require", "metadata", "tokens">>)
RuleDatabase ==
    Rule(<<"rds", "-", "backup">>, <<"Keep Backups">>, <<"Resilience">>, "low",
         RDSType, <<"Enable", "deletion", "protection">>)
RuleEverything ==
    Rule(<<"all", "-", "1">>, <<"Encrypt Everything">>, <<"Data", "Protection">>, "medium",
         <<"all">>, <<"Encrypt", "at", "rest", "and", "keep", "it", "from", "Public", "view">>)

RuleLeastPrivilege ==
    Rule(<<"iam", "-", "1">>, <<"Least Privilege">>, <<"IAM">>, "high",
         <<"aws_iam_policy">>, <<"Grant", "least", "Privilege">>)
\* a rule whose severity is none of the four levels
RuleAdvice ==
    Rule(<<"gen", "-", "9">>, <<"Review Privileges">>, <<"Best", "Practice">>, "info",
         <<"all">>, <<"Review", "privilege", "and", "Encrypt", "data">>)
\* a rule about SSH whose check says to restrict it
RuleSshRestrict ==
    Rule(<<"sg", "-", "ssh", "-", "2">>, <<"Close SSH">>, <<"Network", "Exposure">>, "high",
         SecurityGroupType, <<"Restrict", "SSH", "to", "known", "ranges">>)

\* The catalogs the evaluator is run under.
Catalogs ==
    {<<>>,
     <<RuleS3Encrypt, RuleS3Public>>,
     <<RuleRestrict, RuleSsh, RuleRestrictRule>>,
     <<RuleInstance, RuleDatabase, RuleEverything>>,
     <<RuleLeastPrivilege, RuleAdvice>>,
     <<RuleSshRestrict>>}

InitAnalysis ==
    /\ IdleFunctions
    /\ IdleWalk
    /\ IdleApp
    /\ resources \in DependencyDocuments \cup EvaluatorDocuments
    /\ hardeningRules \in Catalogs
    /\ seen = {}
    /\ securityIssues = NotComputed
    /\ previousSecurityIssues = NotComputed
    /\ dependencies = NotComputed
    /\ previousDependencies = NotComputed
    /\ network = NotComputed

\* SecurityAnalyzer.analyzeResources(resources); seen is the Set of
\* deduplicateIssues as the call leaves it.
AnalyzeResources ==
    /\ \E call \in {analyzeResourcesFrom(hardeningRules, resources, seen)} :
          /\ securityIssues' = Computed(call.outcome)
          /\ seen' = call.seen
    /\ previousSecurityIssues' = securityIssues
    /\ UNCHANGED <<walkVars, scoreVars, dedupVars, appVars, resources, hardeningRules,
                   dependencies, previousDependencies, network>>

\* DependencyAnalyzer.analyzeDependencies(resources)
AnalyzeDependencies ==
    /\ dependencies' = Computed(analyzeDependencies(resources))
    /\ previousDependencies' = dependencies
    /\ UNCHANGED <<walkVars, scoreVars, dedupVars, appVars, resources, hardeningRules, seen,
                   securityIssues, previousSecurityIssues, network>>

NextAnalysis == AnalyzeResources \/ AnalyzeDependencies

SpecAnalysis == InitAnalysis /\ [][NextAnalysis]_vars

\* The edges the last analyzeDependencies call returned.
ReturnedDependencies == ValueOf(dependencies).value
DependenciesReturned == dependencies # NotComputed /\ ~ValueOf(dependencies).raised

ImplicitEdges == {n \in DOMAIN ReturnedDependencies : ReturnedDependencies[n].type = "implicit"}
ExplicitEdges == {n \in DOMAIN ReturnedDependencies : ReturnedDependencies[n].type = "explicit"}

DocumentIds == {resources[r].type \o <<".">> \o resources[r].name : r \in DOMAIN resources}

\* The (resource, instance, entry) places of the document's top-level attributes.
InstancePlaces ==
    UNION {{<<r, i>> : i \in DOMAIN resources[r].instances} : r \in DOMAIN resources}
AttributePlaces ==
    UNION {{<<p[1], p[2], n>> : n \in DOMAIN resources[p[1]].instances[p[2]].attributes.o} :
              p \in {q \in InstancePlaces : resources[q[1]].instances[q[2]].attributes.t = "obj"}}
AttributeAt(p) == resources[p[1]].instances[p[2]].attributes.o[p[3]].v

\* The string "${T.N.id}" for words T and N.
IsReference(v) ==
    /\ v.t = "str"
    /\ Len(v.s) = 7
    /\ v.s[1] = "${" /\ v.s[3] = "." /\ v.s[5] = "." /\ v.s[7] = "}"
    /\ {v.s[2], v.s[4], v.s[6]} \cap {"${", ".", "}"} = {}
ReferenceTarget(v) == <<v.s[2], ".", v.s[4]>>

\* C6: no implicit edge has its source as its target.
C6_NoImplicitSelfEdge ==
    DependenciesReturned =>
        \A n \in ImplicitEdges : ReturnedDependencies[n].source # ReturnedDependencies[n].target

\* An instance references its own resource, and another resource too.
C6_Witness ==
    /\ DependenciesReturned
    /\ \E p \in AttributePlaces :
           /\ IsReference(AttributeAt(p))
           /\ ReferenceTarget(AttributeAt(p)) = resources[p[1]].type \o <<".">> \o resources[p[1]].name
    /\ ImplicitEdges # {}

\* C7: an attribute "${T.N.id}" of an instance of S gives an implicit edge
\* from S to T.N if and only if T.N is a resource of the document other than
\* S; every implicit edge targets a resource of the document.
C7_ImplicitEdgeIffKnownTarget ==
    DependenciesReturned =>
        /\ \A p \in AttributePlaces :
               IsReference(AttributeAt(p)) =>
                   LET S == resources[p[1]].type \o <<".">> \o resources[p[1]].name
                       TN == ReferenceTarget(AttributeAt(p))
                   IN  (\E n \in ImplicitEdges :
                            /\ ReturnedDependencies[n].source = S
                            /\ ReturnedDependencies[n].target = TN)
                       <=> (TN \in DocumentIds /\ TN # S)
        /\ \A n \in ImplicitEdges : ReturnedDependencies[n].target \in DocumentIds

\* One reference names a resource the document lacks, another is resolved.
C7_Witness ==
    /\ DependenciesReturned
    /\ \E p \in AttributePlaces :
           /\ IsReference(AttributeAt(p))
           /\ ReferenceTarget(AttributeAt(p)) \notin DocumentIds
    /\ ImplicitEdges # {}

\* The (resource, instance, entry) places of the document's depends_on lists.
DependsOnPlaces ==
    UNION {{<<p[1], p[2], n>> : n \in DOMAIN resources[p[1]].instances[p[2]].depends_on.a} :
              p \in {q \in InstancePlaces : resources[q[1]].instances[q[2]].depends_on.t = "arr"}}
DeclaredEdge(p) ==
    [source |-> resources[p[1]].type \o <<".">> \o resources[p[1]].name,
     target |-> resources[p[1]].instances[p[2]].depends_on.a[p[3]].s,
     type |-> "explicit",
     relationship |-> <<"depends_on">>]

\* C8: the explicit edges returned are one per entry of every depends_on
\* list, from the owning resource to the listed string, with relationship
\* "depends_on", whether or not the target is in the document; nothing else
\* is an explicit edge.
C8_OneExplicitEdgePerEntry ==
    DependenciesReturned =>
        /\ \A p \in DependsOnPlaces :
               Cardinality({n \in ExplicitEdges : ReturnedDependencies[n] = DeclaredEdge(p)})
                   = Cardinality({q \in DependsOnPlaces : DeclaredEdge(q) = DeclaredEdge(p)})
        /\ \A n \in ExplicitEdges :
               \E p \in DependsOnPlaces : ReturnedDependencies[n] = DeclaredEdge(p)

\* A list names one target twice, another names nothing in the document.
C8_Witness ==
    /\ DependenciesReturned
    /\ \E p, q \in DependsOnPlaces : p # q /\ p[1] = q[1] /\ p[2] = q[2]
                                       /\ DeclaredEdge(p) = DeclaredEdge(q)
    /\ \E n \in ExplicitEdges : ReturnedDependencies[n].target \notin DocumentIds

FindingsAlone(r) == analyzeResources(hardeningRules, <<resources[r]>>)

C10_MalformedInstanceNeverRaises ==
    securityIssues # NotComputed =>
        /\ ~ValueOf(securityIssues).raised
        /\ \A r \in DOMAIN resources :
              ~FindingsAlone(r).raised =>
                  \A n \in DOMAIN FindingsAlone(r).value :
                      \E m \in DOMAIN ValueOf(securityIssues).value :
                          SameTriple(ValueOf(securityIssues).value[m],
                                     FindingsAlone(r).value[n])

\* What the last analyzeResources call returned, and whether it returned.
ResourcesReturned == securityIssues # NotComputed /\ ~ValueOf(securityIssues).raised
ReturnedIssues == ValueOf(securityIssues).value

\* `${type}.${name}[${index}]` of the instance at a place <<r, i>>.
InstanceIdAt(p) == resourceKey(resources[p[1]]) \o IndexToken(p[2] - 1)
AttributesAt(p) == resources[p[1]].instances[p[2]].attributes
FindingsAt(p) == {n \in DOMAIN ReturnedIssues : ReturnedIssues[n].resource = InstanceIdAt(p)}

\* The findings of every resource that evaluates on its own are returned.
OtherFindingsReturned ==
    \A r \in DOMAIN resources :
        ~FindingsAlone(r).raised =>
            \A n \in DOMAIN FindingsAlone(r).value :
                \E m \in DOMAIN ReturnedIssues :
                    SameTriple(ReturnedIssues[m], FindingsAlone(r).value[n])

(***************************************************************************)
(* C11: for an identity-policy instance whose policy attribute is a string *)
(* that is not JSON, analyzeResources does not raise, returns a finding    *)
(* with violation policy_parse_error for that instance, and returns the    *)
(* findings of all other resources.                                        *)
(***************************************************************************)
UnparsablePolicyPlaces ==
    {p \in InstancePlaces :
        /\ resources[p[1]].type \in IAMTypes
        /\ AttributesAt(p).t = "obj"
        /\ Get(AttributesAt(p), "policy").t = "str"
        /\ JSONparse(Get(AttributesAt(p), "policy")).raised}

C11_UnparsablePolicyIsDiagnosed ==
    (securityIssues # NotComputed /\ UnparsablePolicyPlaces # {}) =>
        /\ ~ValueOf(securityIssues).raised
        /\ \A p \in UnparsablePolicyPlaces :
              \E n \in FindingsAt(p) : ReturnedIssues[n].details = "policy_parse_error"
        /\ OtherFindingsReturned

(***************************************************************************)
(* C12: every finding analyzeResources returns has one of the four         *)
(* severities and one of the four categories, whatever severity and        *)
(* category the rules of the catalog carry.                                *)
(***************************************************************************)
FindingSeverities == {"critical", "high", "medium", "low"}
FindingCategories == {"public_exposure", "encryption", "access_control", "compliance"}

C12_SeverityAndCategoryNormalized ==
    ResourcesReturned =>
        \A n \in DOMAIN ReturnedIssues :
            /\ ReturnedIssues[n].severity \in FindingSeverities
            /\ ReturnedIssues[n].category \in FindingCategories

(***************************************************************************)
(* C13: for an aws_security_group instance whose ingress list has an entry *)
(* with from_port 22 and cidr_blocks containing 0.0.0.0/0, analyzeResources *)
(* returns for that instance a public_exposure finding of severity         *)
(* critical or high and, when a rule applicable to the type has 'ssh' or   *)
(* 'rdp' in its id, a finding with violation dangerous_port_exposed.       *)
(***************************************************************************)
IsOpenSsh(entry) ==
    /\ entry.t = "obj"
    /\ Get(entry, "from_port") = Num(22)
    /\ Get(entry, "cidr_blocks").t = "arr"
    /\ Includes(Get(entry, "cidr_blocks"), UnrestrictedCidr)

OpenSshPlaces ==
    {p \in InstancePlaces :
        /\ resources[p[1]].type = SecurityGroupType
        /\ AttributesAt(p).t = "obj"
        /\ Get(AttributesAt(p), "ingress").t = "arr"
        /\ \E n \in DOMAIN Get(AttributesAt(p), "ingress").a :
              IsOpenSsh(Get(AttributesAt(p), "ingress").a[n])}

HasPortRule ==
    \E n \in DOMAIN hardeningRules :
        /\ hardeningRules[n].resource_type \in {SecurityGroupType, <<"all">>}
        /\ includes(hardeningRules[n].id, "ssh") \/ includes(hardeningRules[n].id, "rdp")

C13_OpenSshIsReported ==
    (securityIssues # NotComputed /\ OpenSshPlaces # {}) =>
        /\ ~ValueOf(securityIssues).raised
        /\ \A p \in OpenSshPlaces :
              /\ \E n \in FindingsAt(p) :
                    /\ ReturnedIssues[n].category = "public_exposure"
                    /\ ReturnedIssues[n].severity \in {"critical", "high"}
              /\ HasPortRule =>
                    \E n \in FindingsAt(p) :
                        ReturnedIssues[n].details = "dangerous_port_exposed"

(***************************************************************************)
(* C14: an aws_s3_bucket instance with a populated                         *)
(* server_side_encryption_configuration, versioning[0].enabled = true and  *)
(* an acl that is neither public-read nor public-read-write has no finding *)
(* of category encryption or public_exposure in what analyzeResources      *)
(* returns, under every catalog.  C14_LoggedBucketIsClean is the same for  *)
(* the buckets that also have logging configured and either no website or  *)
(* block_public_acls set.                                                  *)
(***************************************************************************)
PublicAcls == {Str(<<"public-read">>), Str(<<"public-read-write">>)}

HardenedBucketPlaces ==
    {p \in InstancePlaces :
        /\ resources[p[1]].type = S3Type
        /\ AttributesAt(p).t = "obj"
        /\ Truthy(Get(AttributesAt(p), "server_side_encryption_configuration"))
        /\ Get(AttributesAt(p), "versioning").t = "arr"
        /\ OptGet(At0(Get(AttributesAt(p), "versioning")), "enabled") = Bool(TRUE)
        /\ Get(AttributesAt(p), "acl") \notin PublicAcls}

LoggedBucketPlaces ==
    {p \in HardenedBucketPlaces :
        /\ Truthy(Get(AttributesAt(p), "logging"))
        /\ \/ ~Truthy(Get(AttributesAt(p), "website"))
           \/ Truthy(Get(AttributesAt(p), "block_public_acls"))}

NoDataFinding(p) ==
    \A n \in FindingsAt(p) :
        ReturnedIssues[n].category \notin {"encryption", "public_exposure"}

C14_HardenedBucketIsClean ==
    ResourcesReturned => \A p \in HardenedBucketPlaces : NoDataFinding(p)

C14_LoggedBucketIsClean ==
    ResourcesReturned => \A p \in LoggedBucketPlaces : NoDataFinding(p)

\* A hardened, logged bucket evaluated under rules about public access,
\* encryption, versioning and logging, next to a resource that has findings.
C14_Witness ==
    /\ ResourcesReturned
    /\ LoggedBucketPlaces # {}
    /\ \A k \in {"public", "encrypt", "version", "log"} :
          \E n \in DOMAIN hardeningRules :
              /\ hardeningRules[n].resource_type = S3Type
              /\ mentions(hardeningRules[n], k)
    /\ \E n \in DOMAIN ReturnedIssues :
          ReturnedIssues[n].category \in {"encryption", "public_exposure"}

(***************************************************************************)
(* C15: for an identity-policy instance whose policy, structured or JSON   *)
(* text, has a statement with Effect Allow, Action "*" and Resource "*",   *)
(* analyzeResources returns an access_control finding for that instance    *)
(* that it returns for no instance whose policy differs only in Action     *)
(* being a scoped action list, and it returns no wildcard finding for an   *)
(* instance whose policy scopes both Action and Resource.                  *)
(***************************************************************************)
\* The statements of the policy of the instance at p, <<>> when it has none.
StatementsAt(p) ==
    IF resources[p[1]].type \notin IAMTypes \/ AttributesAt(p).t # "obj" THEN <<>>
    ELSE LET policy == Get(AttributesAt(p), "policy")
             parsed == IF policy.t = "str" THEN JSONparse(policy) ELSE Returned(policy)
         IN  IF parsed.raised \/ parsed.value.t # "obj" THEN <<>>
             ELSE IF Get(parsed.value, "Statement").t # "arr" THEN <<>>
             ELSE Get(parsed.value, "Statement").a

\* Places whose policy is one Allow statement with the given shape of Action
\* and Resource.
Allows(p, actionIsWild, resourceIsWild) ==
    /\ Len(StatementsAt(p)) = 1
    /\ StatementsAt(p)[1].t = "obj"
    /\ Get(StatementsAt(p)[1], "Effect") = Str(<<"Allow">>)
    /\ (Get(StatementsAt(p)[1], "Action") = Wildcard) = actionIsWild
    /\ ~actionIsWild => /\ Get(StatementsAt(p)[1], "Action").t = "arr"
                        /\ ~isWildcard(Get(StatementsAt(p)[1], "Action"))
    /\ (Get(StatementsAt(p)[1], "Resource") = Wildcard) = resourceIsWild
    /\ ~resourceIsWild => Get(StatementsAt(p)[1], "Resource").t = "str"

AllowAllPlaces == {p \in InstancePlaces : Allows(p, TRUE, TRUE)}
ScopedActionPlaces == {p \in InstancePlaces : Allows(p, FALSE, TRUE)}
FullyScopedPlaces == {p \in InstancePlaces : Allows(p, FALSE, FALSE)}

WildcardViolations == {"wildcard_resource", "wildcard_action", "admin_permissions"}
IsWildcardFinding(f) ==
    f.details \in WildcardViolations \/ f.title = <<"Overly Permissive IAM Policy">>

\* The same finding about another instance.
SameFinding(f, g) ==
    f.category = g.category /\ f.title = g.title /\ f.details = g.details

C15_AllowAllIsDistinguished ==
    securityIssues # NotComputed =>
        /\ AllowAllPlaces # {} => ~ValueOf(securityIssues).raised
        /\ ResourcesReturned =>
              /\ \A p \in AllowAllPlaces :
                    \E n \in FindingsAt(p) :
                        /\ ReturnedIssues[n].category = "access_control"
                        /\ \A q \in ScopedActionPlaces : \A m \in FindingsAt(q) :
                              ~SameFinding(ReturnedIssues[n], ReturnedIssues[m])
              /\ \A q \in FullyScopedPlaces : \A m \in FindingsAt(q) :
                    ~IsWildcardFinding(ReturnedIssues[m])

\* The part of C15 about instances that scope both Action and Resource.
C15_FullyScopedHasNoWildcardFinding ==
    ResourcesReturned =>
        \A q \in FullyScopedPlaces : \A m \in FindingsAt(q) :
            ~IsWildcardFinding(ReturnedIssues[m])

\* The part of C15 about the mere presence of an access_control finding.
C15_AllowAllHasAccessFinding ==
    ResourcesReturned =>
        \A p \in AllowAllPlaces :
            \E n \in FindingsAt(p) : ReturnedIssues[n].category = "access_control"

\* The part of C15 about the finding being distinct, for aws_iam_policy.
C15_AllowAllDiffersFromScopedAction ==
    ResourcesReturned =>
        \A p \in AllowAllPlaces : \A q \in ScopedActionPlaces :
            resources[p[1]].type = <<"aws_iam_policy">> =>
                \E n \in FindingsAt(p) :
                    /\ ReturnedIssues[n].category = "access_control"
                    /\ \A m \in FindingsAt(q) :
                          ~SameFinding(ReturnedIssues[n], ReturnedIssues[m])

(***************************************************************************)
(* C19: every identifier in a returned finding (its resource field) or in  *)
(* a returned dependency edge (its source and its target) resolves to      *)
(* exactly one (type, name, index) triple of the document.                 *)
(***************************************************************************)
Triples ==
    {<<resources[p[1]].type, resources[p[1]].name, p[2] - 1>> : p \in InstancePlaces}

\* The triples an identifier names: those of the instance `type.name[index]`,
\* or those of the instances of the resource `type.name`.
Resolved(id) ==
    {t \in Triples : id \in {t[1] \o <<".">> \o t[2] \o IndexToken(t[3]),
                              t[1] \o <<".">> \o t[2]}}

C19_IdentifiersResolve ==
    /\ ResourcesReturned =>
          \A n \in DOMAIN ReturnedIssues :
              Cardinality(Resolved(ReturnedIssues[n].resource)) = 1
    /\ DependenciesReturned =>
          \A n \in DOMAIN ReturnedDependencies :
              /\ Cardinality(Resolved(ReturnedDependencies[n].source)) = 1
              /\ Cardinality(Resolved(ReturnedDependencies[n].target)) = 1

\* The part of C19 about findings.
C19_FindingIdentifiersResolve ==
    ResourcesReturned =>
        \A n \in DOMAIN ReturnedIssues :
            Cardinality(Resolved(ReturnedIssues[n].resource)) = 1

(***************************************************************************)
(* SpecNetwork: analyzeDependencies and getResourceNetwork on every        *)
(* document of at most MaxResources resources of the resolver's pool.      *)
(***************************************************************************)
InitNetwork ==
    /\ IdleFunctions
    /\ IdleWalk
    /\ IdleApp
    /\ resources \in DependencyDocuments
    /\ hardeningRules = <<>>
    /\ seen = {}
    /\ securityIssues = NotComputed
    /\ previousSecurityIssues = NotComputed
    /\ dependencies = NotComputed
    /\ previousDependencies = NotComputed
    /\ network = NotComputed

\* DependencyAnalyzer.getResourceNetwork(dependencies, resources), on the
\* edges analyzeDependencies returned.
GetResourceNetwork ==
    /\ DependenciesReturned
    /\ network' = Computed(getResourceNetwork(ReturnedDependencies, resources))
    /\ UNCHANGED <<walkVars, scoreVars, dedupVars, appVars, resources, hardeningRules, seen,
                   securityIssues, previousSecurityIssues, dependencies,
                   previousDependencies>>

NextNetwork == AnalyzeDependencies \/ GetResourceNetwork

SpecNetwork == InitNetwork /\ [][NextNetwork]_vars

(***************************************************************************)
(* C20: the nodes of getResourceNetwork are one node per resource of the   *)
(* document, in document order, with id = type.name and that resource's    *)
(* type, name and provider; its links are the dependency list in order,    *)
(* each with its source, target, kind and relationship unchanged; an edge  *)
(* whose target is no resource of the document adds no node.               *)
(***************************************************************************)
Nodes == ValueOf(network).nodes
Links == ValueOf(network).links

C20_NetworkIsProjection ==
    network # NotComputed =>
        /\ DOMAIN Nodes = DOMAIN resources
        /\ \A r \in DOMAIN resources :
              /\ Nodes[r].id = resources[r].type \o <<".">> \o resources[r].name
              /\ Nodes[r].type = resources[r].type
              /\ Nodes[r].name = resources[r].name
              /\ Nodes[r].provider = resources[r].provider
        /\ DOMAIN Links = DOMAIN ReturnedDependencies
        /\ \A n \in DOMAIN ReturnedDependencies :
              /\ Links[n].source = ReturnedDependencies[n].source
              /\ Links[n].target = ReturnedDependencies[n].target
              /\ Links[n].type = ReturnedDependencies[n].type
              /\ Links[n].relationship = ReturnedDependencies[n].relationship

\* A network of two resources with a link to a target outside the document.
C20_Witness ==
    /\ network # NotComputed
    /\ Len(Nodes) = 2
    /\ \E n \in DOMAIN Links : Links[n].target \notin DocumentIds
    /\ \E n \in DOMAIN Links : Links[n].target \in DocumentIds

(***************************************************************************)
(* C21: analyzeDependencies returns every explicit edge, in resource,      *)
(* instance and depends_on order, followed by every implicit edge, in      *)
(* resource, instance and walk order, and removes no duplicate: its length *)
(* is the number of depends_on entries plus the number of accepted         *)
(* reference matches, and a pair declared both ways has an edge of each    *)
(* kind.                                                                   *)
(***************************************************************************)
\* p comes before q in document order.
Before(p, q) ==
    \E k \in DOMAIN p :
        /\ p[k] < q[k]
        /\ \A j \in 1..(k - 1) : p[j] = q[j]

\* The places of a set in document order.
RECURSIVE InOrder(_)
InOrder(places) ==
    IF places = {} THEN <<>>
    ELSE LET first == CHOOSE p \in places : \A q \in places \ {p} : Before(p, q)
         IN  <<first>> \o InOrder(places \ {first})

\* The accepted matches of the leaves of the instance at p, as edges.
AcceptedMatches(p) ==
    LET S == resourceKey(resources[p[1]])
        leaves == searchForReferences(AttributesAt(p), <<>>)
        ofLeaf(leaf) ==
            IF leaf.value.t # "str" THEN <<>>
            ELSE LET refs == SelectSeq(refPatternExec(leaf.value.s, 0),
                                 LAMBDA ref : ref \in DocumentIds /\ ref # S)
                 IN  [n \in DOMAIN refs |->
                        [source |-> S, target |-> refs[n], type |-> "implicit",
                         relationship |-> IF leaf.path = <<>>
                                          THEN <<"attribute_reference">>
                                          ELSE leaf.path]]
    IN  Concat([n \in DOMAIN leaves |-> ofLeaf(leaves[n])])

DeclaredEdges ==
    [n \in DOMAIN InOrder(DependsOnPlaces) |-> DeclaredEdge(InOrder(DependsOnPlaces)[n])]
ReferencedEdges ==
    Concat([n \in DOMAIN InOrder(InstancePlaces) |->
               AcceptedMatches(InOrder(InstancePlaces)[n])])

C21_ExplicitThenImplicitUndeduplicated ==
    DependenciesReturned =>
        /\ ReturnedDependencies = DeclaredEdges \o ReferencedEdges
        /\ Len(ReturnedDependencies)
              = Cardinality(DependsOnPlaces) + Len(ReferencedEdges)
        /\ \A n \in DOMAIN DeclaredEdges : \A m \in DOMAIN ReferencedEdges :
              (/\ DeclaredEdges[n].source = ReferencedEdges[m].source
               /\ DeclaredEdges[n].target = ReferencedEdges[m].target) =>
                  /\ \E k \in ExplicitEdges :
                        ReturnedDependencies[k] = DeclaredEdges[n]
                  /\ \E k \in ImplicitEdges :
                        ReturnedDependencies[k] = ReferencedEdges[m]

\* A pair both declared and referenced, in a document with edges of two
\* resources.
C21_Witness ==
    /\ DependenciesReturned
    /\ \E n \in ExplicitEdges : \E m \in ImplicitEdges :
          /\ ReturnedDependencies[n].source = ReturnedDependencies[m].source
          /\ ReturnedDependencies[n].target = ReturnedDependencies[m].target
    /\ \E n, m \in DOMAIN ReturnedDependencies :
          ReturnedDependencies[n].source # ReturnedDependencies[m].source

(***************************************************************************)
(* C22: for a string leaf with any number of interpolations of the form    *)
(* ${type.name...}, analyzeDependencies returns exactly one implicit edge  *)
(* for each interpolation whose type.name is a resource of the document    *)
(* other than the source, whatever text or dot-free interpolations stand   *)
(* before or between them.                                                 *)
(***************************************************************************)
\* The interpolation "${" ... "}" that opens at token i of s closes at the
\* first "}" after it; it names type.name when its second token is the
\* first ".".
ClosingOf(s, i) == FirstAfter(s, i, {"}"})
NamesResourceAt(s, i) ==
    /\ s[i] = "${"
    /\ ClosingOf(s, i) >= i + 4
    /\ \A k \in (i + 1)..(ClosingOf(s, i) - 1) : s[k] # "${"
    /\ s[i + 1] # "."
    /\ s[i + 2] = "."
    /\ s[i + 3] # "."
    /\ ClosingOf(s, i) = i + 4 \/ s[i + 4] = "."

\* One edge per interpolation of the leaf that names a resource of the
\* document other than S.
InterpolationEdges(S, leaf) ==
    IF leaf.value.t # "str" THEN <<>>
    ELSE LET s == leaf.value.s
             at == SelectSeq([i \in DOMAIN s |-> i], LAMBDA i :
                       /\ NamesResourceAt(s, i)
                       /\ <<s[i + 1], ".", s[i + 3]>> \in DocumentIds
                       /\ <<s[i + 1], ".", s[i + 3]>> # S)
         IN  [n \in DOMAIN at |->
                [source |-> S, target |-> <<s[at[n] + 1], ".", s[at[n] + 3]>>,
                 type |-> "implicit",
                 relationship |-> IF leaf.path = <<>> THEN <<"attribute_reference">>
                                  ELSE leaf.path]]

InterpolationEdgesAt(p) ==
    LET leaves == searchForReferences(AttributesAt(p), <<>>)
    IN  Concat([n \in DOMAIN leaves |->
                   InterpolationEdges(resourceKey(resources[p[1]]), leaves[n])])

ExpectedImplicitEdges ==
    Concat([n \in DOMAIN InOrder(InstancePlaces) |->
               InterpolationEdgesAt(InOrder(InstancePlaces)[n])])

Count(list, x) == Cardinality({n \in DOMAIN list : list[n] = x})

C22_OneEdgePerInterpolation ==
    DependenciesReturned =>
        /\ \A n \in DOMAIN ExpectedImplicitEdges :
              Count(ReturnedDependencies, ExpectedImplicitEdges[n])
                  = Count(ExpectedImplicitEdges, ExpectedImplicitEdges[n])
        /\ \A n \in ImplicitEdges :
              Count(ReturnedDependencies, ReturnedDependencies[n])
                  = Count(ExpectedImplicitEdges, ReturnedDependencies[n])

\* The same for the documents without an interpolation that has no dot.
DotFreeInterpolation ==
    \E p \in InstancePlaces :
        \E n \in DOMAIN searchForReferences(AttributesAt(p), <<>>) :
            LET leaf == searchForReferences(AttributesAt(p), <<>>)[n]
            IN  /\ leaf.value.t = "str"
                /\ \E i \in DOMAIN leaf.value.s :
                      /\ leaf.value.s[i] = "${"
                      /\ ClosingOf(leaf.value.s, i) # 0
                      /\ \A k \in i..ClosingOf(leaf.value.s, i) : leaf.value.s[k] # "."

C22_OneEdgePerDottedInterpolation ==
    (DependenciesReturned /\ ~DotFreeInterpolation) =>
        /\ \A n \in DOMAIN ExpectedImplicitEdges :
              Count(ReturnedDependencies, ExpectedImplicitEdges[n])
                  = Count(ExpectedImplicitEdges, ExpectedImplicitEdges[n])
        /\ \A n \in ImplicitEdges :
              Count(ReturnedDependencies, ReturnedDependencies[n])
                  = Count(ExpectedImplicitEdges, ReturnedDependencies[n])

(***************************************************************************)
(* C24: for an aws_security_group instance with an entry whose cidr_blocks *)
(* contain 0.0.0.0/0 in its ingress list or in its egress list,            *)
(* analyzeResources returns the legacy public-access finding of the        *)
(* instance and, under a rule that mentions 'restrict', a rule finding     *)
(* with violation public_access_in_group, also when the instance has both  *)
(* attributes and only an egress entry is open.                            *)
(***************************************************************************)
IsOpenEntry(entry) ==
    /\ entry.t = "obj"
    /\ Get(entry, "cidr_blocks").t = "arr"
    /\ Includes(Get(entry, "cidr_blocks"), UnrestrictedCidr)

HasOpenEntry(list) == list.t = "arr" /\ \E n \in DOMAIN list.a : IsOpenEntry(list.a[n])

SecurityGroupPlaces ==
    {p \in InstancePlaces :
        resources[p[1]].type = SecurityGroupType /\ AttributesAt(p).t = "obj"}

OpenGroupPlaces ==
    {p \in SecurityGroupPlaces :
        \/ HasOpenEntry(Get(AttributesAt(p), "ingress"))
        \/ HasOpenEntry(Get(AttributesAt(p), "egress"))}

HasRestrictRule ==
    \E n \in DOMAIN hardeningRules :
        /\ hardeningRules[n].resource_type \in {SecurityGroupType, <<"all">>}
        /\ mentions(hardeningRules[n], "restrict")

C24_IngressAndEgressInspected ==
    ResourcesReturned =>
        \A p \in OpenGroupPlaces :
            /\ \E n \in FindingsAt(p) :
                  /\ ReturnedIssues[n].category = "public_exposure"
                  /\ ReturnedIssues[n].title = <<"Security Group Allows Public Access">>
            /\ HasRestrictRule =>
                  \E n \in FindingsAt(p) :
                      ReturnedIssues[n].details = "public_access_in_group"

(***************************************************************************)
(* C25: for an aws_s3_bucket instance and a rule applicable to it, every   *)
(* condition of checkS3Rules that the rule's keywords select and the       *)
(* attributes satisfy has a finding of its own, tagged with the rule's id, *)
(* among the findings of the rule pass.  C25_FirstConditionIsTheFinding:   *)
(* a rule yields for an instance one finding tagged with its id when at    *)
(* least one such condition holds and none otherwise, and the finding of a *)
(* bucket carries the first such condition in the order of checkS3Rules.   *)
(***************************************************************************)
S3ConditionOrder ==
    <<"public_acl", "public_website", "no_encryption", "no_versioning", "no_logging">>

\* The conditions of checkS3Rules a rule selects and the attributes satisfy,
\* as places in S3ConditionOrder.
TriggeredS3Conditions(rule, attributes) ==
    {c \in DOMAIN S3ConditionOrder :
        CASE c = 1 ->
                /\ mentions(rule, "public")
                /\ Get(attributes, "acl") \in PublicAcls
          [] c = 2 ->
                /\ mentions(rule, "public")
                /\ Truthy(Get(attributes, "website"))
                /\ ~Truthy(Get(attributes, "block_public_acls"))
          [] c = 3 ->
                /\ mentions(rule, "encrypt")
                /\ ~Truthy(Get(attributes, "server_side_encryption_configuration"))
          [] c = 4 ->
                /\ mentions(rule, "version")
                /\ \/ ~Truthy(Get(attributes, "versioning"))
                   \/ ~Truthy(OptGet(At0(Get(attributes, "versioning")), "enabled"))
          [] c = 5 ->
                /\ mentions(rule, "log")
                /\ ~Truthy(Get(attributes, "logging"))}

BucketPlaces ==
    {p \in InstancePlaces : resources[p[1]].type = S3Type /\ AttributesAt(p).t = "obj"}

\* The rules of the catalog applicable to the resource of a place.
RulesAt(p) ==
    {n \in DOMAIN hardeningRules :
        hardeningRules[n].resource_type \in {resources[p[1]].type, <<"all">>}}

\* What the rule pass pushed for the resource of a place, and the findings
\* in it that rule r yielded for the instance of the place.
RulePassAt(p) == applyHardeningRules(hardeningRules, resources[p[1]]).value
YieldedAt(pass, p, r) ==
    {n \in DOMAIN pass : pass[n].id = hardeningRules[r].id \o <<"-">> \o InstanceIdAt(p)}

C25_EveryConditionIsAFinding ==
    ResourcesReturned =>
        \A p \in BucketPlaces : \A pass \in {RulePassAt(p)} : \A r \in RulesAt(p) :
            \A c \in TriggeredS3Conditions(hardeningRules[r], AttributesAt(p)) :
                \E n \in YieldedAt(pass, p, r) : pass[n].details = S3ConditionOrder[c]

Least(S) == CHOOSE c \in S : \A d \in S : c <= d

C25_FirstConditionIsTheFinding ==
    ResourcesReturned =>
        \A p \in InstancePlaces : \A pass \in {RulePassAt(p)} : \A r \in RulesAt(p) :
            /\ Cardinality(YieldedAt(pass, p, r)) <= 1
            /\ p \in BucketPlaces =>
                  \A triggered \in {TriggeredS3Conditions(hardeningRules[r], AttributesAt(p))} :
                      IF triggered = {} THEN YieldedAt(pass, p, r) = {}
                      ELSE \E n \in YieldedAt(pass, p, r) :
                              /\ pass[n].details = S3ConditionOrder[Least(triggered)]
                              /\ pass[n].severity = hardeningRules[r].severity
                              /\ pass[n].category = mapCategory(hardeningRules[r].category)

\* A bucket with three conditions of one rule triggered and one finding of it,
\* which is returned.
C25_Witness ==
    /\ ResourcesReturned
    /\ \E p \in BucketPlaces : \E r \in RulesAt(p) :
          /\ Cardinality(TriggeredS3Conditions(hardeningRules[r], AttributesAt(p))) = 3
          /\ Cardinality(YieldedAt(RulePassAt(p), p, r)) = 1
          /\ \E n \in FindingsAt(p) :
                ReturnedIssues[n].id = hardeningRules[r].id \o <<"-">> \o InstanceIdAt(p)

(***************************************************************************)
(* C26: no two findings of the list analyzeResources returns have the same *)
(* id, for every document and every catalog whose rule ids are unique.     *)
(***************************************************************************)
UniqueRuleIds ==
    \A n, m \in DOMAIN hardeningRules :
        hardeningRules[n].id = hardeningRules[m].id => n = m

IsCriticalEntry(entry) ==
    IsOpenEntry(entry) /\ Get(entry, "from_port") \in {Num(22), Num(3389)}

CriticalGroupPlaces ==
    {p \in SecurityGroupPlaces :
        /\ Get(AttributesAt(p), "ingress").t = "arr"
        /\ \E n \in DOMAIN Get(AttributesAt(p), "ingress").a :
              IsCriticalEntry(Get(AttributesAt(p), "ingress").a[n])}

C27_CriticalExposureSurvives ==
    ResourcesReturned =>
        \A p \in CriticalGroupPlaces :
            \E n \in FindingsAt(p) :
                /\ ReturnedIssues[n].category = "public_exposure"
                /\ ReturnedIssues[n].severity = "critical"

(***************************************************************************)
(* SpecWalk: the walk of findImplicitDependencies over every attribute     *)
(* value nested at most MaxDepth deep, one searchForReferences call at a   *)
(* time.  A call runs to its end before the caller goes on, so the walk    *)
(* is weakly fair.                                                         *)
(***************************************************************************)
MaxDepth == 2

WalkSource == WebId
WalkMap == {WebId, SgId}
WalkKeys == <<"a", "b">>
WalkScalars == {Null, Bool(FALSE), Str(Ref("aws_security_group", "sg"))}
WalkSiblings == {Null, Str(Ref("aws_security_group", "sg")), Arr(<<Num(5)>>)}

\* The element lists that hold v alone, or v beside one sibling.
Around(inner) ==
    {<<v>> : v \in inner}
        \cup {<<x, v>> : x \in WalkSiblings, v \in inner}
        \cup {<<v, x>> : v \in inner, x \in WalkSiblings}
Keyed(elements) == [n \in DOMAIN elements |-> Entry(WalkKeys[n], elements[n])]

RECURSIVE WalkValues(_)
WalkValues(depth) ==
    IF depth = 0 THEN WalkScalars
    ELSE WalkScalars \cup {Arr(<<>>), Obj(<<>>)}
            \cup {Arr(elements) : elements \in Around(WalkValues(depth - 1))}
            \cup {Obj(Keyed(elements)) : elements \in Around(WalkValues(depth - 1))}

\* A pending call searchForReferences(value, path, callback).
Call(value, path) == [value |-> value, path |-> path]

InitWalk ==
    /\ IdleFunctions
    /\ IdleAnalysis
    /\ IdleApp
    /\ IdleWalk

\* this.searchForReferences(attributes, '', callback): the walk of one
\* instance's attributes starts.
FindImplicitDependencies ==
    /\ walkRoot = NoWalk
    /\ walkRoot' \in WalkValues(MaxDepth) \cup {Undef}
    /\ walkStack' = <<Call(walkRoot', <<>>)>>
    /\ walkCalls' = <<>>
    /\ UNCHANGED <<scoreVars, dedupVars, analysisVars, appVars>>

\* typeof obj !== 'object' || obj === null: the callback is called and the
\* call returns.
LeafReturns ==
    /\ walkStack # <<>>
    /\ Head(walkStack).value.t \notin {"arr", "obj"}
    /\ walkStack' = Tail(walkStack)

VisitLeaf ==
    /\ LeafReturns
    /\ walkCalls' = Append(walkCalls,
            [path |-> Head(walkStack).path, value |-> Head(walkStack).value,
             pushed |-> leafDependencies(WalkSource,
                            [path |-> Head(walkStack).path,
                             value |-> Head(walkStack).value], WalkMap)])
    /\ UNCHANGED <<scoreVars, dedupVars, analysisVars, appVars, walkRoot>>

\* VisitArray that passes over the elements that are null.
VisitArraySkipsNull ==
    /\ walkStack # <<>>
    /\ Head(walkStack).value.t = "arr"
    /\ LET items == Head(walkStack).value.a
           calls == [i \in DOMAIN items |->
                        Call(items[i], Head(walkStack).path \o IndexToken(i - 1))]
       IN  walkStack' = SelectSeq(calls, LAMBDA call : call.value # Null)
                            \o Tail(walkStack)
    /\ UNCHANGED <<scoreVars, dedupVars, analysisVars, appVars, walkRoot, walkCalls>>

\* Array.isArray(obj): one call per item, in order.
VisitArray ==
    /\ walkStack # <<>>
    /\ Head(walkStack).value.t = "arr"
    /\ LET items == Head(walkStack).value.a
       IN  walkStack' = [i \in DOMAIN items |->
                            Call(items[i], Head(walkStack).path \o IndexToken(i - 1))]
                        \o Tail(walkStack)
    /\ UNCHANGED <<scoreVars, dedupVars, analysisVars, appVars, walkRoot, walkCalls>>

\* Object.entries(obj): one call per entry, in order.
VisitObject ==
    /\ walkStack # <<>>
    /\ Head(walkStack).value.t = "obj"
    /\ LET entries == Head(walkStack).value.o
           path == Head(walkStack).path
       IN  walkStack' = [i \in DOMAIN entries |->
                            Call(entries[i].v,
                                 IF path # <<>> THEN path \o <<".", entries[i].k>>
                                 ELSE <<entries[i].k>>)]
                        \o Tail(walkStack)
    /\ UNCHANGED <<scoreVars, dedupVars, analysisVars, appVars, walkRoot, walkCalls>>

NextWalk == FindImplicitDependencies \/ VisitLeaf \/ VisitArray \/ VisitObject

\* A call that was made runs: the walk is synchronous code.  Fairness is
\* stated on what a step does to the pending calls.
SpecWalk ==
    InitWalk /\ [][NextWalk]_vars
             /\ WF_walkStack(LeafReturns \/ VisitArray \/ VisitObject)

(***************************************************************************)
(* C23: the attribute walk ends on every attribute value, whatever its     *)
(* nesting, without raising; it calls the callback exactly once per leaf,  *)
(* a leaf that is no string pushes no edge, and the leaves after it are    *)
(* still visited.                                                          *)
(***************************************************************************)
IsLeaf(v) == v.t \notin {"arr", "obj"}

RECURSIVE LeafCount(_)
LeafCount(v) ==
    IF v.t = "arr" THEN Len(Concat([n \in DOMAIN v.a |-> [k \in 1..LeafCount(v.a[n]) |-> n]]))
    ELSE IF v.t = "obj"
    THEN Len(Concat([n \in DOMAIN v.o |-> [k \in 1..LeafCount(v.o[n].v) |-> n]]))
    ELSE 1

\* The value a path leads to from v.
RECURSIVE ValueAt(_, _)
ValueAt(v, path) ==
    IF path = <<>> THEN v
    ELSE IF Head(path) = "."
    THEN ValueAt(v, Tail(path))
    ELSE IF Head(path) = "["
    THEN ValueAt(v.a[CHOOSE d \in DOMAIN Digits : Digits[d] = path[2]],
                 SubSeq(path, 4, Len(path)))
    ELSE ValueAt(Get(v, Head(path)), Tail(path))

WalkDone == walkStack = <<>>

CallbacksAreLeaves ==
    /\ \A n \in DOMAIN walkCalls :
          /\ IsLeaf(walkCalls[n].value)
          /\ ValueAt(walkRoot, walkCalls[n].path) = walkCalls[n].value
          /\ walkCalls[n].value.t # "str" => walkCalls[n].pushed = <<>>
    /\ \A n, m \in DOMAIN walkCalls : n # m => walkCalls[n].path # walkCalls[m].path
    /\ (WalkDone /\ walkRoot # NoWalk) => Len(walkCalls) = LeafCount(walkRoot)

WalkAgreesWithSearch ==
    (WalkDone /\ walkRoot # NoWalk) =>
        [n \in DOMAIN walkCalls |-> [path |-> walkCalls[n].path, value |-> walkCalls[n].value]]
            = searchForReferences(walkRoot, <<>>)

(***************************************************************************)
(* SpecScore: calculateSecurityScore applied to every findings list of at  *)
(* most MaxScoreIssues findings, grown one finding at a time.              *)
(***************************************************************************)
Severities == {"critical", "high", "medium", "low", "info", "constructor", NoSeverity}

ScoreIssues ==
    {Issue(<<"f">>, sev, "compliance", <<"Title">>, <<"t", ".", "n", "[0]">>) : sev \in Severities}

InitScore ==
    /\ IdleFunctions
    /\ IdleWalk
    /\ IdleAnalysis
    /\ IdleApp

CalculateSecurityScore ==
    /\ score = NotComputed
    /\ score' = Computed(calculateSecurityScore(issues))
    /\ UNCHANGED <<walkVars, issues, prevScore, dedupVars, analysisVars, appVars>>

AddFinding ==
    /\ score # NotComputed
    /\ Len(issues) < MaxScoreIssues
    /\ \E f \in ScoreIssues : issues' = Append(issues, f)
    /\ prevScore' = score
    /\ score' = NotComputed
    /\ UNCHANGED <<walkVars, dedupVars, analysisVars, appVars>>

NextScore == CalculateSecurityScore \/ AddFinding

SpecScore == InitScore /\ [][NextScore]_vars

\* The deduction the specification gives a severity.
SeverityDeduction(sev) ==
    CASE sev = "critical" -> 25
      [] sev = "high" -> 15
      [] sev = "medium" -> 8
      [] sev = "low" -> 3
      [] OTHER -> 0

RECURSIVE SumOfDeductions(_)
SumOfDeductions(list) ==
    IF list = <<>> THEN 0
    ELSE SumOfDeductions(Tail(list)) + SeverityDeduction(Head(list).severity)

\* C4: for every findings list, calculateSecurityScore returns
\* max(0, 100 - D), D the sum of 25 per critical, 15 per high, 8 per medium,
\* 3 per low and 0 per unrecognized or missing severity; the result is an
\* integer in 0..100 and is 100 for the empty list.
C4_ScoreIsClampedDeduction ==
    score # NotComputed =>
        LET D == SumOfDeductions(issues)
            v == ValueOf(score)
        IN  /\ v = (IF 100 - D > 0 THEN 100 - D ELSE 0)
            /\ v \in 0..100
            /\ (issues = <<>> => v = 100)

\* A scored list that holds an unrecognized severity and deductions of 100.
C4_Witness ==
    /\ score = Computed(0)
    /\ SumOfDeductions(issues) >= 100
    /\ \E i \in DOMAIN issues : issues[i].severity = "constructor"

\* C5: appending one finding of any severity never increases the score.
C5_ScoreMonotone ==
    (score # NotComputed /\ prevScore # NotComputed) =>
        ValueOf(score) <= ValueOf(prevScore)

\* A finding of unrecognized severity appended to a list that already scores
\* below 100, and both scores computed.
C5_Witness ==
    /\ score # NotComputed
    /\ prevScore # NotComputed
    /\ issues[Len(issues)].severity \in {"info", "constructor", NoSeverity}
    /\ ValueOf(prevScore) < 100
    /\ ValueOf(score) = ValueOf(prevScore)

(***************************************************************************)
(* SpecDedup: deduplicateIssues applied to every findings list of at most  *)
(* MaxDedupIssues findings, and applied again to its own result.           *)
(***************************************************************************)
ResourceA == <<"aws_s3_bucket", ".", "a">> \o IndexToken(0)
\* the instance 0 of the resource named "a[0]-encryption-b"
ResourceB ==
    <<"aws_s3_bucket", ".", "a">> \o IndexToken(0) \o <<"-", "encryption", "-", "b">>
        \o IndexToken(0)
TitlePlain == <<"Not Encrypted">>
TitleHyphen == <<"b">> \o IndexToken(0) \o <<"-", "encryption", "-", "Not Encrypted">>

DedupIssues ==
    {Issue(<<"f">>, sev, cat, title, res) :
        sev \in {"critical", "high"}, cat \in {"encryption", "public_exposure"},
        title \in {TitlePlain, TitleHyphen}, res \in {ResourceA, ResourceB}}

InitDedup ==
    /\ IdleFunctions
    /\ IdleWalk
    /\ IdleAnalysis
    /\ IdleApp

PushIssue ==
    /\ deduped = NotComputed
    /\ Len(issues) < MaxDedupIssues
    /\ \E f \in DedupIssues : issues' = Append(issues, f)
    /\ UNCHANGED <<walkVars, score, prevScore, dedupVars, analysisVars, appVars>>

DeduplicateIssues ==
    /\ deduped = NotComputed
    /\ deduped' = Computed(deduplicateIssues(issues))
    /\ UNCHANGED <<walkVars, scoreVars, rededuped, analysisVars, appVars>>

DeduplicateAgain ==
    /\ deduped # NotComputed
    /\ rededuped = NotComputed
    /\ rededuped' = Computed(deduplicateIssues(ValueOf(deduped)))
    /\ UNCHANGED <<walkVars, scoreVars, deduped, analysisVars, appVars>>

NextDedup == PushIssue \/ DeduplicateIssues \/ DeduplicateAgain

SpecDedup == InitDedup /\ [][NextDedup]_vars

\* The findings of list that no earlier finding of list shares its triple with.
RECURSIVE FirstOfEachTriple(_)
FirstOfEachTriple(list) ==
    IF list = <<>> THEN <<>>
    ELSE LET front == SubSeq(list, 1, Len(list) - 1)
             last == list[Len(list)]
         IN  IF \E j \in DOMAIN front : SameTriple(front[j], last)
             THEN FirstOfEachTriple(front)
             ELSE Append(FirstOfEachTriple(front), last)

\* C2: deduplicateIssues returns the first occurrence of each distinct
\* (resource, category, title) triple, in input order: a finding is dropped
\* if and only if an earlier finding has the same three components.
C2_DedupKeepsFirstOfEachTriple ==
    deduped # NotComputed => ValueOf(deduped) = FirstOfEachTriple(issues)

\* C3: deduplicating an already deduplicated list changes nothing.
C3_DedupIdempotent ==
    rededuped # NotComputed => ValueOf(rededuped) = ValueOf(deduped)

\* The second pass has run on a list the first pass shortened to two findings.
C3_Witness ==
    /\ rededuped # NotComputed
    /\ Len(ValueOf(deduped)) = 2
    /\ Len(issues) = 3

(***************************************************************************)
(* TerraformParser                                                         *)
(***************************************************************************)
\* A File: its name, its size in megabytes, whether FileReader can read it,
\* and the text it holds.
File(name, size, readable, content) ==
    [name |-> name, size |-> size, readable |-> readable, content |-> content]

\* 50 * 1024 * 1024 bytes, in megabytes.
maxSize == 50
validateFileSize(file) == file.size <= maxSize

validExtensions == {".tfstate", ".json"}
\* fileName.endsWith(ext): the extension is the last token of the name.
validateFileType(file) ==
    LET fileName == toLowerCase(file.name)
    IN  \E ext \in validExtensions : fileName # <<>> /\ fileName[Len(fileName)] = ext

\* A call that threw an Error with the given message.
Failed(message) == [raised |-> TRUE, message |-> message]

\* parseStateFile returns the TerraformState, of which the model keeps the
\* resources, or throws.
parseStateFile(content) ==
    LET parsed == JSONparse(content)
    IN  IF parsed.raised THEN Failed("Invalid JSON format in state file")
        ELSE IF NullOrUndef(parsed.value) THEN Failed("TypeError")
        ELSE IF \/ ~Truthy(Get(parsed.value, "resources"))
                \/ Get(parsed.value, "resources").t # "arr"
        THEN Failed("Invalid Terraform state file: missing resources array")
        ELSE Returned(Get(parsed.value, "resources").a)

\* attrs.region and attrs.availability_zone.slice(0, -1) of one instance.
instanceThrows(instance) ==
    \/ NullOrUndef(instance.attributes)
    \/ /\ Truthy(Get(instance.attributes, "availability_zone"))
       /\ Get(instance.attributes, "availability_zone").t \notin {"str", "arr"}

\* generateAnalysis, without the regions, providers and per-type counts.
generateAnalysis(rs) ==
    IF \E r \in DOMAIN rs : \E i \in DOMAIN rs[r].instances :
           instanceThrows(rs[r].instances[i])
    THEN Failed("TypeError")
    ELSE Returned([t |-> "analysis", resources |-> rs, securityIssues |-> <<>>,
                   dependencies |-> <<>>,
                   summary |-> [totalResources |-> Len(rs), securityScore |-> 85,
                                criticalIssues |-> 0]])

(***************************************************************************)
(* useFileProcessor and AppContent                                         *)
(***************************************************************************)
ErrorMessage(message, run) == [t |-> "str", s |-> <<message>>, run |-> run]

\* A catch block that spreads the previous state over the new one.
FailedStateKeepsPrevious(message, run) ==
    [isProcessing |-> FALSE, error |-> ErrorMessage(message, run), result |-> result,
     progress |-> progress]

\* The ProcessingState the catch block sets.
FailedState(message, run) ==
    [isProcessing |-> FALSE, error |-> ErrorMessage(message, run), result |-> Null,
     progress |-> 0]

\* CompleteState without lines 1052-1053: the summary keeps the placeholders
\* of generateAnalysis.
CompleteStatePlaceholders(run, analysis, found, edges) ==
    [isProcessing |-> FALSE, error |-> Null, progress |-> 100,
     result |-> [t |-> "analysis", run |-> run,
                 resources |-> analysis.resources,
                 securityIssues |-> found,
                 dependencies |-> edges,
                 summary |-> analysis.summary]]

\* The last setState of the try block, for the analysis generateAnalysis
\* returned, the findings and the edges.
CompleteState(run, analysis, found, edges) ==
    [isProcessing |-> FALSE, error |-> Null, progress |-> 100,
     result |-> [t |-> "analysis", run |-> run,
                 resources |-> analysis.resources,
                 securityIssues |-> found,
                 dependencies |-> edges,
                 summary |-> [totalResources |-> analysis.summary.totalResources,
                              securityScore |-> calculateSecurityScore(found),
                              criticalIssues |->
                                  Len(SelectSeq(found,
                                      LAMBDA issue : issue.severity = "critical"))]]]

\* What one run of processFile did after its await: the calls it made, in
\* order, and the ProcessingState its last setState left.
Run(calls, state) == [calls |-> calls, state |-> state]

\* The try block from generateAnalysis on, given what each call did.
analysed(run, analysis, found, edges) ==
    IF analysis.raised
    THEN Run(<<"parseStateFile", "generateAnalysis">>, FailedState("TypeError", run))
    ELSE IF found.raised
    THEN Run(<<"parseStateFile", "generateAnalysis", "analyzeResources">>,
             FailedState("TypeError", run))
    ELSE IF edges.raised
    THEN Run(<<"parseStateFile", "generateAnalysis", "analyzeResources",
               "calculateSecurityScore", "analyzeDependencies">>,
             FailedState("TypeError", run))
    ELSE Run(<<"parseStateFile", "generateAnalysis", "analyzeResources",
               "calculateSecurityScore", "analyzeDependencies">>,
             CompleteState(run, analysis.value, found.value, edges.value))

\* The try block from parseStateFile on, given what it did.
parsed(run, state, catalog) ==
    IF state.raised THEN Run(<<"parseStateFile">>, FailedState(state.message, run))
    ELSE analysed(run, generateAnalysis(state.value),
                  analyzeResources(catalog, state.value),
                  analyzeDependencies(state.value))

\* processFile from the first statement after the await to its last setState,
\* for invocation run of file under the rule catalog.
afterRead(run, file, catalog) ==
    IF ~file.readable THEN Run(<<>>, FailedState("Failed to read file", run))
    ELSE parsed(run, parseStateFile(file.content), catalog)

\* An App without the auto-navigate effect.
afterEffectStays(view, res, processing) == view

\* The auto-navigate effect, which runs after every render.
afterEffect(view, res, processing) ==
    IF Truthy(res) /\ ~processing /\ view = "upload" THEN "dashboard" ELSE view

Views == {"dashboard", "security", "network", "dependencies", "export"}

(***************************************************************************)
(* SpecApp: the upload state machine under every interleaving of           *)
(* processFile invocations, FileReader completions, resets and view        *)
(* changes, for at most MaxRuns invocations.                               *)
(***************************************************************************)
MaxRuns == 2

StateText(rs) == JsonText(Obj(<<Entry("version", Num(4)), Entry("resources", Arr(rs))>>))

Named(pool, name) == CHOOSE r \in pool : r.name = <<name>>

Files == {
    File(<<"prod", ".tfstate">>, 1, TRUE, StateText(<<Named(EvaluatorResources, "web")>>)),
    File(<<"stack", ".JSON">>, 50, TRUE,
         StateText(<<Named(EvaluatorResources, "data"), Named(EvaluatorResources, "db")>>)),
    File(<<"empty", ".json">>, 1, TRUE, StateText(<<>>)),
    File(<<"notes", ".txt">>, 1, TRUE, Str(<<"notes">>)),
    File(<<"huge", ".json">>, 51, TRUE, StateText(<<>>)),
    File(<<"gone", ".tfstate">>, 1, FALSE, StateText(<<>>)),
    File(<<"torn", ".tfstate">>, 1, TRUE, Str(<<"{", "resources">>)),
    File(<<"bare", ".json">>, 1, TRUE, JsonText(Obj(<<Entry("version", Num(4))>>))),
    File(<<"flat", ".tfstate">>, 1, TRUE, StateText(<<Named(EvaluatorResources, "flat")>>)),
    \* the JSON text null
    File(<<"null", ".json">>, 1, TRUE, Str(<<"null">>)),
    \* an instance whose attributes are null
    File(<<"ghost", ".tfstate">>, 1, TRUE, StateText(<<Named(EvaluatorResources, "ghost")>>)),
    \* "depends_on" a string where a list is expected
    File(<<"tied", ".tfstate">>, 1, TRUE,
         StateText(<<Resource(SgType, <<"tied">>,
                              <<Instance(Obj(<<>>), Str(<<"aws_instance", ".", "web">>))>>)>>))
}

InitApp ==
    /\ IdleFunctions
    /\ IdleWalk
    /\ resources = <<>>
    /\ hardeningRules \in Catalogs
    /\ seen = {}
    /\ securityIssues = NotComputed
    /\ previousSecurityIssues = NotComputed
    /\ dependencies = NotComputed
    /\ previousDependencies = NotComputed
    /\ network = NotComputed
    /\ IdleApp

\* The dropzone hands a file to processFile, which runs to its await or to
\* its catch block.  The dropzone is rendered on the upload view while
\* isProcessing is false.
ProcessFile ==
    /\ currentView = "upload"
    /\ ~isProcessing
    /\ nextRun <= MaxRuns
    /\ \E file \in Files :
        LET failure ==
                IF ~validateFileType(file)
                THEN FailedState("Invalid file type. Please upload a .tfstate or .json file.",
                                 nextRun)
                ELSE FailedState("File size exceeds 50MB limit.", nextRun)
            valid == validateFileType(file) /\ validateFileSize(file)
        IN  /\ isProcessing' = valid
            /\ error' = IF valid THEN Null ELSE failure.error
            /\ result' = IF valid THEN result ELSE Null
            /\ progress' = IF valid THEN 20 ELSE 0
            /\ reading' = IF valid THEN reading \cup {[run |-> nextRun, file |-> file]}
                          ELSE reading
            /\ currentView' = afterEffect(currentView, result', isProcessing')
            /\ ended' = IF valid THEN ended
                        ELSE Computed([run |-> nextRun, file |-> file, calls |-> <<>>,
                                       left |-> failure])
    /\ superseded' = superseded \cup 1..(nextRun - 1)
    /\ nextRun' = nextRun + 1
    /\ UNCHANGED <<walkVars, scoreVars, dedupVars, analysisVars>>

\* The FileReader of an invocation completes and the invocation runs to
\* its end.
FileRead ==
    \E r \in reading :
        \E end \in {afterRead(r.run, r.file, hardeningRules)} :
            /\ isProcessing' = end.state.isProcessing
            /\ error' = end.state.error
            /\ result' = end.state.result
            /\ progress' = end.state.progress
            /\ reading' = reading \ {r}
            /\ currentView' = afterEffect(currentView, end.state.result,
                                          end.state.isProcessing)
            /\ ended' = Computed([run |-> r.run, file |-> r.file, calls |-> end.calls,
                                  left |-> end.state])
            /\ UNCHANGED <<walkVars, scoreVars, dedupVars, analysisVars, nextRun, superseded>>

\* handleReset (New Analysis) and handleGoHome (the logos); the footer logo
\* is rendered in every state.
Reset ==
    /\ isProcessing' = FALSE
    /\ error' = Null
    /\ result' = Null
    /\ progress' = 0
    /\ currentView' = "upload"
    /\ superseded' = superseded \cup 1..(nextRun - 1)
    /\ UNCHANGED <<walkVars, scoreVars, dedupVars, analysisVars, reading, nextRun, ended>>

\* The header navigation, rendered when there is a result and the view is
\* not the upload view.
ViewChange ==
    /\ Truthy(result)
    /\ currentView # "upload"
    /\ \E view \in Views : currentView' = afterEffect(view, result, isProcessing)
    /\ UNCHANGED <<walkVars, scoreVars, dedupVars, analysisVars, isProcessing, error, result,
                   progress, reading, nextRun, superseded, ended>>

NextApp == ProcessFile \/ FileRead \/ Reset \/ ViewChange

SpecApp == InitApp /\ [][NextApp]_vars

(***************************************************************************)
(* C9: once an invocation of processFile has been superseded by a reset    *)
(* or by a newer invocation, the processor state never holds its result    *)
(* or its error, and the App never displays it.                            *)
(***************************************************************************)
C9_SupersededNeverSurfaced ==
    /\ Truthy(result) => result.run \notin superseded
    /\ Truthy(error) => error.run \notin superseded

(***************************************************************************)
(* C16: parseStateFile returns a state only for content that is JSON with  *)
(* a resources array; for text that is not JSON processFile fails with     *)
(* 'Invalid JSON format in state file', for every JSON value without a     *)
(* resources array with 'Invalid Terraform state file: missing resources   *)
(* array', and after either failure neither analyzeResources nor           *)
(* analyzeDependencies is called.                                          *)
(***************************************************************************)
\* The invocation that ended last, and whether its content reached the parser.
HasEnded == ended # NotComputed
EndedRun == ValueOf(ended)
WasRead(file) == validateFileType(file) /\ validateFileSize(file) /\ file.readable

HasResourcesArray(v) == v.t = "obj" /\ Get(v, "resources").t = "arr"
Evaluators == {"analyzeResources", "analyzeDependencies"}
FailedWith(message) ==
    /\ EndedRun.left.error = ErrorMessage(message, EndedRun.run)
    /\ EndedRun.left.result = Null
    /\ Range(EndedRun.calls) \cap Evaluators = {}

C16_ShapeErrorsAreFatal ==
    (HasEnded /\ WasRead(EndedRun.file)) =>
        /\ JSONparse(EndedRun.file.content).raised =>
              FailedWith("Invalid JSON format in state file")
        /\ (/\ ~JSONparse(EndedRun.file.content).raised
            /\ ~HasResourcesArray(JSONparse(EndedRun.file.content).value)) =>
              FailedWith("Invalid Terraform state file: missing resources array")
        /\ "generateAnalysis" \in Range(EndedRun.calls) =>
              /\ ~JSONparse(EndedRun.file.content).raised
              /\ HasResourcesArray(JSONparse(EndedRun.file.content).value)

\* The part of C16 about the calls: no evaluation after a shape error.
C16_NoEvaluationAfterShapeError ==
    (/\ HasEnded
     /\ WasRead(EndedRun.file)
     /\ \/ JSONparse(EndedRun.file.content).raised
        \/ ~HasResourcesArray(JSONparse(EndedRun.file.content).value)) =>
            /\ EndedRun.left.result = Null
            /\ Truthy(EndedRun.left.error)
            /\ Range(EndedRun.calls) \cap Evaluators = {}

(***************************************************************************)
(* C17: a processFile invocation that fails at any step (file type, file   *)
(* size, file read, parse, generateAnalysis, evaluation, dependency        *)
(* resolution) leaves result = null, error = one message, isProcessing =   *)
(* false and progress = 0; while an error is shown no result is, and a     *)
(* result is only ever that of an invocation none of whose steps failed.   *)
(***************************************************************************)
\* The step at which processing the file fails under the catalog, from the
\* functions themselves; "none" when every step succeeds.
FailingStep(file, catalog) ==
    IF ~validateFileType(file) THEN "type"
    ELSE IF ~validateFileSize(file) THEN "size"
    ELSE IF ~file.readable THEN "read"
    ELSE IF parseStateFile(file.content).raised THEN "parse"
    ELSE IF generateAnalysis(parseStateFile(file.content).value).raised THEN "analysis"
    ELSE IF analyzeResources(catalog, parseStateFile(file.content).value).raised
    THEN "evaluation"
    ELSE IF analyzeDependencies(parseStateFile(file.content).value).raised
    THEN "dependencies"
    ELSE "none"

IsMessage(v) == v.t = "str" /\ v.s # <<>>

C17_FailureLeavesNoPartialResult ==
    /\ (HasEnded /\ FailingStep(EndedRun.file, hardeningRules) # "none") =>
          /\ EndedRun.left.result = Null
          /\ IsMessage(EndedRun.left.error)
          /\ EndedRun.left.isProcessing = FALSE
          /\ EndedRun.left.progress = 0
    /\ Truthy(error) =>
          /\ result = Null
          /\ IsMessage(error)
          /\ isProcessing = FALSE
          /\ progress = 0
    /\ Truthy(result) =>
          /\ HasEnded
          /\ EndedRun.run = result.run
          /\ FailingStep(EndedRun.file, hardeningRules) = "none"

\* An invocation has just failed at dependency resolution, after the
\* evaluator had returned its findings, and its error is on screen.
C17_Witness ==
    /\ HasEnded
    /\ FailingStep(EndedRun.file, hardeningRules) = "dependencies"
    /\ "analyzeDependencies" \in Range(EndedRun.calls)
    /\ Truthy(error)
    /\ error.run = EndedRun.run

(***************************************************************************)
(* C18: processFile publishes a result only after analyzeResources and     *)
(* analyzeDependencies have both returned on the resource list it parsed,  *)
(* and every published result has securityIssues =                         *)
(* analyzeResources(resources), dependencies =                             *)
(* analyzeDependencies(resources), summary.securityScore =                 *)
(* calculateSecurityScore(securityIssues) and summary.criticalIssues = the *)
(* number of findings of severity critical.                                *)
(***************************************************************************)
RECURSIVE CountCritical(_)
CountCritical(list) ==
    IF list = <<>> THEN 0
    ELSE (IF Head(list).severity = "critical" THEN 1 ELSE 0) + CountCritical(Tail(list))

C18_ResultJoinsBothAnalyses ==
    Truthy(result) =>
        /\ HasEnded
        /\ EndedRun.run = result.run
        /\ Evaluators \subseteq Range(EndedRun.calls)
        /\ ~parseStateFile(EndedRun.file.content).raised
        /\ result.resources = parseStateFile(EndedRun.file.content).value
        /\ ~analyzeResources(hardeningRules, result.resources).raised
        /\ result.securityIssues = analyzeResources(hardeningRules, result.resources).value
        /\ ~analyzeDependencies(result.resources).raised
        /\ result.dependencies = analyzeDependencies(result.resources).value
        /\ result.summary.securityScore = calculateSecurityScore(result.securityIssues)
        /\ result.summary.criticalIssues = CountCritical(result.securityIssues)

\* A published result with a critical finding and a score other than the
\* placeholder of generateAnalysis.
C18_Witness ==
    /\ Truthy(result)
    /\ result.summary.criticalIssues > 0
    /\ result.summary.securityScore # generateAnalysis(result.resources).value.summary.securityScore
    /\ result.securityIssues # <<>>

(***************************************************************************)
(* C28: in every state of the App, a view other than the upload view is    *)
(* shown only while there is a result to render.                           *)
(***************************************************************************)
C28_NoBlankScreen == currentView # "upload" => Truthy(result)

(***************************************************************************)
(* C29: whenever the processor state holds a result, isProcessing is       *)
(* false, progress is 100 and error is null.                               *)
(***************************************************************************)
C29_ResultIsSettled ==
    Truthy(result) =>
        /\ isProcessing = FALSE
        /\ progress = 100
        /\ error = Null

\* A result on display while the FileReader of a later invocation is pending.
C29_Witness ==
    /\ Truthy(result)
    /\ currentView # "upload"
    /\ \E r \in reading : r.run > result.run

(***************************************************************************)
(* SpecAppFair: SpecApp in which the FileReader of every invocation calls  *)
(* back, with onload or with onerror.                                      *)
(***************************************************************************)
ReadingRuns == {r.run : r \in reading}

\* What the completion of one read does to the pending reads.
ReadReturns(run) == \E r \in reading : r.run = run /\ reading' = reading \ {r}

SpecAppFair == SpecApp /\ \A run \in 1..MaxRuns : WF_reading(ReadReturns(run))

(***************************************************************************)
(* C30: every processFile invocation ends: its read pending, it eventually *)
(* is over; the state it leaves has isProcessing false and exactly one of  *)
(* result and error; a result left on the upload view moves the view to    *)
(* the dashboard; and from the start of an invocation to its end no start  *)
(* or end of an invocation lowers progress.                                *)
(***************************************************************************)
C30_EveryReadEnds ==
    \A run \in 1..MaxRuns : (run \in ReadingRuns) ~> (run \notin ReadingRuns)

InvocationEnds == ended' # ended
InvocationStarts == nextRun' # nextRun

C30_EndIsSettled ==
    [][InvocationEnds =>
          /\ isProcessing' = FALSE
          /\ Truthy(result') # Truthy(error')
          /\ (Truthy(result') /\ currentView = "upload") => currentView' = "dashboard"]_vars

C30_ProgressOnlyIncreases ==
    [][((InvocationEnds \/ InvocationStarts) /\ ReadingRuns \cap ReadingRuns' # {}) =>
          progress' >= progress]_vars

C30_EveryInvocationEnds ==
    C30_EveryReadEnds /\ C30_EndIsSettled /\ C30_ProgressOnlyIncreases

====
